---- MODULE Spec2Model ----
(***************************************************************************)
(* Verification model of the Reportcard application (Django).              *)
(*                                                                         *)
(* The module holds several specifications over one set of variables:      *)
(*   Spec       the push endpoints push_sync_view / offline_sync_batch_view *)
(*              working on the Grade table, one request at a time           *)
(*   SpecLWW    sequences of single-entry update pushes for one record      *)
(*   SpecConc   two concurrent push requests updating the same record       *)
(*   SpecPull   the pull endpoints sync_view (apps and schools)             *)
(*   SpecLetter Grade.calculate_letter_grade as a function                  *)
(*   SpecGrade  sequences of Grade saves                                    *)
(* A specification leaves the variables of the others unchanged.           *)
(***************************************************************************)
EXTENDS Integers, Sequences, FiniteSets, TLC

(***************************************************************************)
(* Bounds                                                                  *)
(***************************************************************************)
\* the server clock runs over 0..MaxTime
MaxTime == 1
\* primary keys of the Grade table are 1..MaxId
MaxId == 2
\* a push payload carries at most MaxBatch entries under its key
MaxBatch == 2
\* a grading scale configures at most MaxRanges ranges
MaxRanges == 2

(***************************************************************************)
(* Values                                                                  *)
(***************************************************************************)
\* Python None for a key or foreign key, also a key absent from a dict
NoneV == 0
\* Python None for a timestamp
NoTime == -1
\* Python None or an absent key for a payload
NoVal == "none"
\* no row with that primary key
NoRow == [school |-> NoneV, val |-> NoVal, updated_at |-> NoTime]
\* the two tenants
SchoolIds == {1, 2}
\* the payload of a record (score, comments, ...) as one opaque value
Vals == {"a", "b"}
\* a payload the serializer rejects (wrong type, dangling key, duplicate)
Invalid == "invalid"
Times == 0..MaxTime
Ids == 1..MaxId
\* an updated_at string datetime.fromisoformat cannot parse
BadTime == -2

\* the five per-model result lists of a push response
Lists == {"created", "updated", "deleted", "errors", "conflicts"}
\* the entry was appended to no list
NoList == "none"

\* requesters: a teacher of school 1 and a super admin without a school
Users ==
  { [role |-> "teacher", school |-> 1],
    [role |-> "super_admin", school |-> NoneV] }

\* top-level payload keys a client sends
PayloadKeys == {"grades", "supporttickets"}

VARIABLES
  db,        \* Grade table: id -> row or NoRow
  now,       \* server clock, the value auto_now stamps on a save
  nextId,    \* next primary key the table hands out
  req,       \* the push request being served, or NoReq
  cur,       \* the entry the loop is processing, or NoEntry
  result,    \* the result dict of the request: list -> key -> count
  seen,      \* SpecLWW: the <<updated_at, payload>> of the entries received
  accepted,  \* SpecLWW: the payload of the entry that was written last
  pc,        \* SpecConc: where each of the two requests stands
  held,      \* SpecConc: the entry each request carries
  readRow,   \* SpecConc: the row each request got from Model.objects.get
  out,       \* SpecConc: the list each request appended its entry to
  tables,    \* SpecPull: model -> id -> row
  pull,      \* SpecPull: the last sync_view request
  resp,      \* SpecPull: its response
  lgrade,    \* SpecLetter: the Grade instance (school, score)
  lscales,   \* SpecLetter: the GradingScale rows, by primary key
  lresult,   \* SpecLetter: what calculate_letter_grade returned
  grades,    \* SpecGrade: the Grade rows, by student
  \* BEGIN-LATER
  tschools,      \* SpecTenant: the School rows, by id
  treq,          \* SpecTenant: the request (middleware class, header, session)
  tschool,       \* SpecTenant: request.school, or Unset
  tstatus,       \* SpecTenant: 0 while the request is being served, then its status
  applications,  \* SpecApp: the UserApplication rows, by id
  accounts,      \* SpecApp: the User rows (username, email, role, school)
  called,        \* SpecApp: the last call (operation, id, what it returned)
  form_posted,   \* SpecApp: the registration form posted last
  stored,        \* SpecLog: the stored instances, as <<model, id>>
  changelog,     \* SpecLog: the ChangeLog rows, oldest first
  lastop,        \* SpecLog: the last save or delete (model, id, action)
  schools,       \* SpecSchool: the School names, by primary key
  school_next,   \* SpecSchool: the next primary key of School
  session_school, \* SpecSchool: the school_id of the super admin's session
  sreq,          \* SpecSchool: the last request to a school view
  sresp,         \* SpecSchool: its response (status, error on name)
  puser,         \* SpecPerm: request.user of the check
  pclass,        \* SpecPerm: the permission class asked
  granted,       \* SpecPerm: what has_permission answered, or Pending
  cards,         \* SpecCard: the ReportCard rows, by id
  card_clock,    \* SpecCard: the clock timezone.now() and auto_now read
  templates,     \* SpecTemplate: the ReportTemplate rows, by id
  tsaved,        \* SpecTemplate: the template the last request saved, and its is_default
  tickets,       \* SpecTicket: the SupportTicket rows, by id
  ticket_clock,  \* SpecTicket: the clock auto_now reads
  dreq,          \* SpecDelete: the delete batch a client sends twice (view, ids, position, pass)
  dtable,        \* SpecDelete: the table the batch is applied to
  once,          \* SpecDelete: the table as the first pass left it
  dlist,         \* SpecDelete: the result list of the last entry handled
  dash_clock,    \* SpecDash: the clock of the cache, in seconds
  counts,        \* SpecDash: the number of rows behind each cache key
  changed_at,    \* SpecDash: when each of these numbers changed last
  dash_cache,    \* SpecDash: the cache (value and expiry time by key)
  shown,         \* SpecDash: the count the last dashboard showed, and when
  trows,         \* SpecRace: the ReportTemplate rows the two saves work on, by id
  saving,        \* SpecRace: the statement each of the two saves is at
  serialized,    \* SpecRace: whether the database makes a second writer wait for the first
  srv,           \* SpecReconcile: the server's tables (rows by model and id)
  local,         \* SpecReconcile: the client's copy of the records in scope
  sclock,        \* SpecReconcile: the server clock
  rpull,         \* SpecReconcile: the pull request of the client
  pulled,        \* SpecReconcile: whether the client has pulled and applied the response
  gscoped        \* SpecScope: the Grade rows (student, subject, grading_period, school)

tableVars == <<db, now, nextId>>
pushVars == <<req, cur, result>>
lwwVars == <<seen, accepted>>
concVars == <<pc, held, readRow, out>>
pullVars == <<tables, pull, resp>>
letterVars == <<lgrade, lscales, lresult>>
gradeVars == <<grades>>

\* BEGIN-GROUPS
tenantVars == <<tschools, treq, tschool, tstatus>>
appVars == <<applications, accounts, called, form_posted>>
logVars == <<stored, changelog, lastop>>
schoolVars == <<schools, school_next, session_school, sreq, sresp>>
permVars == <<puser, pclass, granted>>
cardVars == <<cards, card_clock>>
templateVars == <<templates, tsaved>>
ticketVars == <<tickets, ticket_clock>>
deleteVars == <<dreq, dtable, once, dlist>>
dashVars == <<dash_clock, counts, changed_at, dash_cache, shown>>
raceVars == <<trows, saving, serialized>>
reconcileVars == <<srv, local, sclock, rpull, pulled>>
scopeVars == <<gscoped>>

\* the variables of the specifications of the Grade table and of the rest
laterVars == <<tenantVars, appVars, logVars, schoolVars, permVars, cardVars,
               templateVars, ticketVars, deleteVars, dashVars, raceVars,
               reconcileVars, scopeVars>>

vars == <<tableVars, pushVars, lwwVars, concVars, pullVars, letterVars,
          gradeVars, tenantVars, appVars, logVars, schoolVars, permVars,
          cardVars, templateVars, ticketVars, deleteVars, dashVars, raceVars,
          reconcileVars, scopeVars>>

\* the variables a specification does not use
notPush == <<lwwVars, concVars, pullVars, letterVars, gradeVars, laterVars>>
notLWW == <<pushVars, concVars, pullVars, letterVars, gradeVars, laterVars>>
notConc == <<pushVars, lwwVars, pullVars, letterVars, gradeVars, laterVars>>
notPull == <<tableVars, pushVars, lwwVars, concVars, letterVars, gradeVars,
             laterVars>>
notLetter == <<tableVars, pushVars, lwwVars, concVars, pullVars, gradeVars,
               laterVars>>
notGrade == <<tableVars, pushVars, lwwVars, concVars, pullVars, letterVars,
              laterVars>>
notTenant == <<tableVars, pushVars, lwwVars, concVars, pullVars, letterVars,
               gradeVars, appVars, logVars, schoolVars, permVars, cardVars,
               templateVars, ticketVars, deleteVars, dashVars, raceVars,
               reconcileVars, scopeVars>>
notApp == <<tableVars, pushVars, lwwVars, concVars, pullVars, letterVars,
            gradeVars, tenantVars, logVars, schoolVars, permVars, cardVars,
            templateVars, ticketVars, deleteVars, dashVars, raceVars,
            reconcileVars, scopeVars>>
notLog == <<tableVars, pushVars, lwwVars, concVars, pullVars, letterVars,
            gradeVars, tenantVars, appVars, schoolVars, permVars, cardVars,
            templateVars, ticketVars, deleteVars, dashVars, raceVars,
            reconcileVars, scopeVars>>
notSchool == <<tableVars, pushVars, lwwVars, concVars, pullVars, letterVars,
               gradeVars, tenantVars, appVars, logVars, permVars, cardVars,
               templateVars, ticketVars, deleteVars, dashVars, raceVars,
               reconcileVars, scopeVars>>
notPerm == <<tableVars, pushVars, lwwVars, concVars, pullVars, letterVars,
             gradeVars, tenantVars, appVars, logVars, schoolVars, cardVars,
             templateVars, ticketVars, deleteVars, dashVars, raceVars,
             reconcileVars, scopeVars>>
notCard == <<tableVars, pushVars, lwwVars, concVars, pullVars, letterVars,
             gradeVars, tenantVars, appVars, logVars, schoolVars, permVars,
             templateVars, ticketVars, deleteVars, dashVars, raceVars,
             reconcileVars, scopeVars>>
notTemplate == <<tableVars, pushVars, lwwVars, concVars, pullVars,
                 letterVars, gradeVars, tenantVars, appVars, logVars,
                 schoolVars, permVars, cardVars, ticketVars, deleteVars,
                 dashVars, raceVars, reconcileVars, scopeVars>>
notTicket == <<tableVars, pushVars, lwwVars, concVars, pullVars, letterVars,
               gradeVars, tenantVars, appVars, logVars, schoolVars, permVars,
               cardVars, templateVars, deleteVars, dashVars, raceVars,
               reconcileVars, scopeVars>>
notDelete == <<tableVars, pushVars, lwwVars, concVars, pullVars, letterVars,
               gradeVars, tenantVars, appVars, logVars, schoolVars, permVars,
               cardVars, templateVars, ticketVars, dashVars, raceVars,
               reconcileVars, scopeVars>>
notDash == <<tableVars, pushVars, lwwVars, concVars, pullVars, letterVars,
             gradeVars, tenantVars, appVars, logVars, schoolVars, permVars,
             cardVars, templateVars, ticketVars, deleteVars, raceVars,
             reconcileVars, scopeVars>>
notRace == <<tableVars, pushVars, lwwVars, concVars, pullVars, letterVars,
             gradeVars, tenantVars, appVars, logVars, schoolVars, permVars,
             cardVars, templateVars, ticketVars, deleteVars, dashVars,
             reconcileVars, scopeVars>>
notReconcile == <<tableVars, pushVars, lwwVars, concVars, pullVars,
                  letterVars, gradeVars, tenantVars, appVars, logVars,
                  schoolVars, permVars, cardVars, templateVars, ticketVars,
                  deleteVars, dashVars, raceVars, scopeVars>>
notScope == <<tableVars, pushVars, lwwVars, concVars, pullVars, letterVars,
              gradeVars, tenantVars, appVars, logVars, schoolVars, permVars,
              cardVars, templateVars, ticketVars, deleteVars, dashVars,
              raceVars, reconcileVars>>
\* END-GROUPS

(***************************************************************************)
(* Rows and entries                                                        *)
(***************************************************************************)
Rows == [school : SchoolIds, val : Vals, updated_at : Times]

\* entries {action, data} of a payload; fields an action does not read are
\* left out (NoneV), and a rejected payload carries no further field
Entries ==
  { e \in [action : {"create", "update", "delete", "archive"},
           id : Ids \cup {NoneV},
           updated_at : Times \cup {NoTime, BadTime},
           school : SchoolIds \cup {NoneV},
           val : Vals \cup {Invalid, NoVal}] :
      /\ e.action = "create" =>
           /\ e.id = NoneV /\ e.updated_at = NoTime /\ e.val # NoVal
           /\ (e.val = Invalid => e.school = NoneV)
      /\ e.action = "update" =>
           /\ (e.id = NoneV =>
                 e.updated_at = NoTime /\ e.school = NoneV /\ e.val = NoVal)
           /\ (e.id # NoneV => e.val # NoVal)
           /\ (e.val = Invalid => e.school = NoneV)
      /\ e.action = "delete" =>
           e.updated_at = NoTime /\ e.school = NoneV /\ e.val = NoVal
      /\ e.action = "archive" =>
           /\ e.id = NoneV /\ e.updated_at = NoTime
           /\ e.school = NoneV /\ e.val = NoVal }

(***************************************************************************)
(* Serializer and ORM                                                      *)
(***************************************************************************)
\* GradeSerializer(data=..., partial=...).is_valid(): the payload is well
\* formed and, unless partial, the required school key is present
is_valid(data, partial) ==
  /\ data.val # Invalid
  /\ data.val # NoVal
  /\ (partial \/ data.school # NoneV)

\* datetime.fromisoformat on the client's updated_at; None when the key is
\* absent or the string does not parse
parse_updated_at(x) == IF x \in Times THEN x ELSE NoTime

\* the conflict test: the server copy is strictly newer than the client's
server_newer_strict_mut(server_updated_at, incoming_updated_at) ==
  /\ server_updated_at # NoTime
  /\ incoming_updated_at # NoTime
  /\ server_updated_at >= incoming_updated_at

server_newer(server_updated_at, incoming_updated_at) ==
  /\ server_updated_at # NoTime
  /\ incoming_updated_at # NoTime
  /\ server_updated_at > incoming_updated_at

\* serializer.Grade_save() of a new instance: id and updated_at are read-only
\* fields, the table assigns the key and auto_now the timestamp
save_new(d, nid, data, t) ==
  [d EXCEPT ![nid] = [school |-> data.school, val |-> data.val,
                      updated_at |-> t]]

\* serializer.Grade_save() of an existing instance with partial data
save_existing(d, id, data, t) ==
  [d EXCEPT ![id] = [school |-> IF data.school # NoneV THEN data.school
                                ELSE d[id].school,
                     val |-> data.val,
                     updated_at |-> t]]

\* obj.delete()
delete_row(d, id) == [d EXCEPT ![id] = NoRow]

\* Model.objects.get(id=...) finds a row
exists(d, id) == id \in DOMAIN d /\ d[id] # NoRow

(***************************************************************************)
(* One entry of a push payload                                             *)
(***************************************************************************)
\* what processing one entry yields: the table, the key counter and the
\* result list the entry was appended to
Outcome(d, nid, l) == [db |-> d, nextId |-> nid, list |-> l]

\* Serializer(data=data), is_valid, save, append to created; a rejected
\* payload goes to errors
create_entry(d, nid, t, data) ==
  IF is_valid(data, FALSE)
  THEN Outcome(save_new(d, nid, data, t), nid + 1, "created")
  ELSE Outcome(d, nid, "errors")

\* the update branch when Model.objects.get raises DoesNotExist
update_missing_mut(d, nid, t, data) == Outcome(d, nid, "errors")

update_missing(d, nid, t, data) == create_entry(d, nid, t, data)

\* the update branch for a row that exists: conflict test, then the write
update_existing(d, nid, t, data) ==
  IF server_newer(d[data.id].updated_at, parse_updated_at(data.updated_at))
  THEN Outcome(d, nid, "conflicts")
  ELSE IF is_valid(data, TRUE)
       THEN Outcome(save_existing(d, data.id, data, t), nid, "updated")
       ELSE Outcome(d, nid, "errors")

\* a delete whose id names no record is an error
delete_missing_error_mut(view) == "errors"

\* the delete branch when Model.objects.get raises DoesNotExist:
\* push_sync_view passes, offline_sync_batch_view appends to deleted
delete_missing(view) ==
  IF view = "push_sync_view" THEN NoList ELSE "deleted"

\* the body of the entry loop of push_sync_view
push_sync_entry(d, nid, t, e) ==
  CASE e.action = "create" -> create_entry(d, nid, t, e)
    [] e.action = "update" ->
         IF e.id = NoneV THEN Outcome(d, nid, "errors")
         ELSE IF exists(d, e.id) THEN update_existing(d, nid, t, e)
         ELSE update_missing(d, nid, t, e)
    [] e.action = "delete" ->
         IF e.id = NoneV THEN Outcome(d, nid, "errors")
         ELSE IF exists(d, e.id) THEN Outcome(delete_row(d, e.id), nid, "deleted")
         ELSE Outcome(d, nid, delete_missing("push_sync_view"))
    [] OTHER -> Outcome(d, nid, "errors")

\* school_context of offline_sync_batch_view: request.school, else the
\* school of the user
school_context(r) == IF r.school # NoneV THEN r.school ELSE r.user.school

\* the data goes to the serializer as the client sent it
enforce_school_never_mut(e, ctx) == e

\* data['school'] = school_context.id when there is a context
enforce_school(e, ctx) == IF ctx # NoneV THEN [e EXCEPT !.school = ctx] ELSE e

\* the body of the entry loop of offline_sync_batch_view
offline_sync_entry(d, nid, t, ctx, e) ==
  LET data == enforce_school(e, ctx) IN
  CASE e.action = "create" -> create_entry(d, nid, t, data)
    [] e.action = "update" ->
         IF e.id = NoneV THEN Outcome(d, nid, "errors")
         ELSE IF exists(d, e.id) THEN update_existing(d, nid, t, data)
         ELSE update_missing(d, nid, t, data)
    [] e.action = "delete" ->
         IF e.id = NoneV THEN Outcome(d, nid, "errors")
         ELSE IF exists(d, e.id) THEN Outcome(delete_row(d, e.id), nid, "deleted")
         ELSE Outcome(d, nid, delete_missing("offline_sync_batch_view"))
    [] OTHER -> Outcome(d, nid, "errors")

(***************************************************************************)
(* Requests                                                                *)
(***************************************************************************)
NoReq == [view |-> "idle", user |-> [role |-> "none", school |-> NoneV],
          school |-> NoneV, key |-> "none", left |-> 0]

NoEntry == [action |-> "none", id |-> NoneV, updated_at |-> NoTime,
            school |-> NoneV, val |-> NoVal]

\* the keys push_sync_view finds in its models dict after
\* key.rstrip('s').lower()
push_model_keys == {"grades", "grade"}

\* the keys offline_sync_batch_view finds in its models dict after lower()
offline_model_keys == {"grades"}

recognised(view, key) ==
  IF view = "push_sync_view" THEN key \in push_model_keys
  ELSE key \in offline_model_keys

\* result = {'created': {}, 'updated': {}, ...}
empty_result == [l \in Lists |-> [k \in {} |-> 0]]

\* result[list].setdefault(key, []) for the five lists
setdefault(res, key) ==
  [l \in Lists |-> [k \in (DOMAIN res[l]) \cup {key} |->
                      IF k \in DOMAIN res[l] THEN res[l][k] ELSE 0]]

\* result[list][key].append(...), nothing when the entry goes to no list
append_twice_mut(res, key, list) ==
  [l \in Lists |-> IF l = list \/ (list = "conflicts" /\ l = "errors")
                   THEN [res[l] EXCEPT ![key] = @ + 1] ELSE res[l]]

append(res, key, list) ==
  [l \in Lists |-> IF l = list THEN [res[l] EXCEPT ![key] = @ + 1]
                   ELSE res[l]]

\* the loop goes on to the next entry whatever the outcome of this one
next_left_mut(left, list) == IF list = "errors" THEN 0 ELSE left - 1

next_left(left, list) == left - 1

\* the entry would insert a row (used to keep the keys within 1..MaxId)
inserts(view, ctx, e) ==
  LET data == IF view = "push_sync_view" THEN e ELSE enforce_school(e, ctx)
  IN /\ \/ e.action = "create"
        \/ e.action = "update" /\ e.id # NoneV /\ ~exists(db, e.id)
     /\ is_valid(data, FALSE)

(***************************************************************************)
(* Values the variables of a specification have under the others           *)
(***************************************************************************)
IdleLWW == seen = {} /\ accepted = NoVal

IdleConc ==
  /\ pc = <<"off", "off">>
  /\ held = <<NoEntry, NoEntry>>
  /\ readRow = <<NoRow, NoRow>>
  /\ out = <<NoList, NoList>>

NoPull == [view |-> "none", user |-> [role |-> "none", school |-> NoneV],
           header |-> NoneV, session |-> NoneV, school_id |-> NoneV,
           last_sync |-> NoTime]

NoResp == [status |-> 0, rows |-> {}, school_id |-> NoneV]

IdlePull == tables = <<>> /\ pull = NoPull /\ resp = NoResp

\* score is None
NoScore == -1

\* calculate_letter_grade has not been called
Pending == "pending"

IdleLetter ==
  /\ lgrade = [school |-> NoneV, score |-> NoScore]
  /\ lscales = <<>>
  /\ lresult = Pending

\* no Grade row for the student
NoGrade == [score |-> NoScore, letter_grade |-> "none", is_override |-> FALSE]

IdleGrade == grades = <<>>

\* a School-ID header that is not the decimal form of an integer
Malformed == -3

\* request.school was never assigned
Unset == -4

\* no request has reached the middleware
NoTReq == [stack |-> "none", header |-> NoneV, session |-> NoneV]

IdleTenant ==
  /\ tschools = <<>>
  /\ treq = NoTReq
  /\ tschool = Unset
  /\ tstatus = 0

\* the Grade table holds one row, of school 2
InitTable ==
  /\ db = [i \in Ids |-> IF i = 1
                         THEN [school |-> 2, val |-> "a", updated_at |-> 0]
                         ELSE NoRow]
  /\ now = 0
  /\ nextId = 2

IdlePush == req = NoReq /\ cur = NoEntry /\ result = empty_result

\* no call on a UserApplication has been made
NoCall == [op |-> "none", id |-> NoneV, ret |-> "none"]

\* no registration form has been posted
NoPost == [username |-> "", email |-> "", role |-> "none", school |-> NoneV]

IdleApp ==
  /\ applications = <<>>
  /\ accounts = {}
  /\ called = NoCall
  /\ form_posted = NoPost

\* no model operation has been made
NoOp == [model |-> "none", id |-> NoneV, action |-> "none"]

IdleLog ==
  /\ stored = {}
  /\ changelog = <<>>
  /\ lastop = NoOp
\* no School row under an id
NoName == [stem |-> "none", upper |-> FALSE, padded |-> FALSE]

\* no request to a school view
NoSReq == [view |-> "none", role |-> "none", method |-> "none",
           name |-> NoName, pk |-> NoneV]

NoSResp == [status |-> 0, name_error |-> FALSE]

IdleSchool ==
  /\ schools = <<>>
  /\ school_next = 0
  /\ session_school = NoneV
  /\ sreq = NoSReq
  /\ sresp = NoSResp
\* no request is being checked
NoPUser == [is_authenticated |-> FALSE, role |-> "none", school |-> NoneV]

IdlePerm ==
  /\ puser = NoPUser
  /\ pclass = "none"
  /\ granted = Pending
\* no ReportCard row under an id
NoCard == [status |-> "none", is_published |-> FALSE,
           published_at |-> NoTime, updated_at |-> NoTime]

IdleCard ==
  /\ cards = <<>>
  /\ card_clock = 0
\* no ReportTemplate row under an id
NoTemplate == [school |-> NoneV, is_default |-> FALSE, is_active |-> FALSE]

\* no template was saved by the last request
NoSave == [id |-> NoneV, is_default |-> FALSE]

IdleTemplate ==
  /\ templates = <<>>
  /\ tsaved = NoSave
\* no SupportTicket row under an id
NoTicket == [status |-> "none", resolved_at |-> NoTime,
             updated_at |-> NoTime]

IdleTicket ==
  /\ tickets = <<>>
  /\ ticket_clock = 0
NoDReq == [view |-> "idle", school |-> NoneV, ids |-> << >>, pos |-> 1,
           pass |-> 0]

IdleDelete ==
  /\ dreq = NoDReq
  /\ dtable = [i \in Ids |-> NoRow]
  /\ once = [i \in Ids |-> NoRow]
  /\ dlist = NoList

\* cache.get finds nothing under the key
NoCached == [value |-> 0, expires |-> 0]

\* no dashboard has been rendered
NoShown == [key |-> "none", value |-> 0, at |-> 0]

IdleDash ==
  /\ dash_clock = 0
  /\ counts = [k \in {"schools_count", "classes_count_1"} |-> 0]
  /\ changed_at = [k \in {"schools_count", "classes_count_1"} |-> 0]
  /\ dash_cache = [k \in {"schools_count", "classes_count_1"} |-> NoCached]
  /\ shown = NoShown

IdleRace ==
  /\ trows = <<>>
  /\ saving = <<>>
  /\ serialized = FALSE

IdleReconcile ==
  /\ srv = <<>>
  /\ local = <<>>
  /\ sclock = 0
  /\ rpull = NoPull
  /\ pulled = FALSE

IdleScope == gscoped = {}

\* BEGIN-IDLE
\* the specifications of the Grade table are at rest
IdleFirst ==
  /\ InitTable
  /\ IdlePush
  /\ IdleLWW
  /\ IdleConc
  /\ IdlePull
  /\ IdleLetter
  /\ IdleGrade

\* the other specifications are at rest
IdleLater ==
  /\ IdleTenant
  /\ IdleApp
  /\ IdleLog
  /\ IdleSchool
  /\ IdlePerm
  /\ IdleCard
  /\ IdleTemplate
  /\ IdleTicket
  /\ IdleDelete
  /\ IdleDash
  /\ IdleRace
  /\ IdleReconcile
  /\ IdleScope

IdleNotTenant ==
  /\ IdleFirst
  /\ IdleApp
  /\ IdleLog
  /\ IdleSchool
  /\ IdlePerm
  /\ IdleCard
  /\ IdleTemplate
  /\ IdleTicket
  /\ IdleDelete
  /\ IdleDash
  /\ IdleRace
  /\ IdleReconcile
  /\ IdleScope

IdleNotApp ==
  /\ IdleFirst
  /\ IdleTenant
  /\ IdleLog
  /\ IdleSchool
  /\ IdlePerm
  /\ IdleCard
  /\ IdleTemplate
  /\ IdleTicket
  /\ IdleDelete
  /\ IdleDash
  /\ IdleRace
  /\ IdleReconcile
  /\ IdleScope

IdleNotLog ==
  /\ IdleFirst
  /\ IdleTenant
  /\ IdleApp
  /\ IdleSchool
  /\ IdlePerm
  /\ IdleCard
  /\ IdleTemplate
  /\ IdleTicket
  /\ IdleDelete
  /\ IdleDash
  /\ IdleRace
  /\ IdleReconcile
  /\ IdleScope

IdleNotSchool ==
  /\ IdleFirst
  /\ IdleTenant
  /\ IdleApp
  /\ IdleLog
  /\ IdlePerm
  /\ IdleCard
  /\ IdleTemplate
  /\ IdleTicket
  /\ IdleDelete
  /\ IdleDash
  /\ IdleRace
  /\ IdleReconcile
  /\ IdleScope

IdleNotPerm ==
  /\ IdleFirst
  /\ IdleTenant
  /\ IdleApp
  /\ IdleLog
  /\ IdleSchool
  /\ IdleCard
  /\ IdleTemplate
  /\ IdleTicket
  /\ IdleDelete
  /\ IdleDash
  /\ IdleRace
  /\ IdleReconcile
  /\ IdleScope

IdleNotCard ==
  /\ IdleFirst
  /\ IdleTenant
  /\ IdleApp
  /\ IdleLog
  /\ IdleSchool
  /\ IdlePerm
  /\ IdleTemplate
  /\ IdleTicket
  /\ IdleDelete
  /\ IdleDash
  /\ IdleRace
  /\ IdleReconcile
  /\ IdleScope

IdleNotTemplate ==
  /\ IdleFirst
  /\ IdleTenant
  /\ IdleApp
  /\ IdleLog
  /\ IdleSchool
  /\ IdlePerm
  /\ IdleCard
  /\ IdleTicket
  /\ IdleDelete
  /\ IdleDash
  /\ IdleRace
  /\ IdleReconcile
  /\ IdleScope

IdleNotTicket ==
  /\ IdleFirst
  /\ IdleTenant
  /\ IdleApp
  /\ IdleLog
  /\ IdleSchool
  /\ IdlePerm
  /\ IdleCard
  /\ IdleTemplate
  /\ IdleDelete
  /\ IdleDash
  /\ IdleRace
  /\ IdleReconcile
  /\ IdleScope

IdleNotDelete ==
  /\ IdleFirst
  /\ IdleTenant
  /\ IdleApp
  /\ IdleLog
  /\ IdleSchool
  /\ IdlePerm
  /\ IdleCard
  /\ IdleTemplate
  /\ IdleTicket
  /\ IdleDash
  /\ IdleRace
  /\ IdleReconcile
  /\ IdleScope

IdleNotDash ==
  /\ IdleFirst
  /\ IdleTenant
  /\ IdleApp
  /\ IdleLog
  /\ IdleSchool
  /\ IdlePerm
  /\ IdleCard
  /\ IdleTemplate
  /\ IdleTicket
  /\ IdleDelete
  /\ IdleRace
  /\ IdleReconcile
  /\ IdleScope

IdleNotRace ==
  /\ IdleFirst
  /\ IdleTenant
  /\ IdleApp
  /\ IdleLog
  /\ IdleSchool
  /\ IdlePerm
  /\ IdleCard
  /\ IdleTemplate
  /\ IdleTicket
  /\ IdleDelete
  /\ IdleDash
  /\ IdleReconcile
  /\ IdleScope

IdleNotReconcile ==
  /\ IdleFirst
  /\ IdleTenant
  /\ IdleApp
  /\ IdleLog
  /\ IdleSchool
  /\ IdlePerm
  /\ IdleCard
  /\ IdleTemplate
  /\ IdleTicket
  /\ IdleDelete
  /\ IdleDash
  /\ IdleRace
  /\ IdleScope

IdleNotScope ==
  /\ IdleFirst
  /\ IdleTenant
  /\ IdleApp
  /\ IdleLog
  /\ IdleSchool
  /\ IdlePerm
  /\ IdleCard
  /\ IdleTemplate
  /\ IdleTicket
  /\ IdleDelete
  /\ IdleDash
  /\ IdleRace
  /\ IdleReconcile
\* END-IDLE

(***************************************************************************)
(* Spec: the push endpoints, one request at a time                         *)
(***************************************************************************)
InitPush ==
  /\ InitTable
  /\ IdlePush
  /\ IdleLWW
  /\ IdleConc
  /\ IdlePull
  /\ IdleLetter
  /\ IdleGrade
  /\ IdleLater

\* time passes on the server
Tick ==
  /\ now < MaxTime
  /\ now' = now + 1
  /\ UNCHANGED <<db, nextId, pushVars, notPush>>

\* the state of a request on arrival: the payload has one key with n
\* entries; an unrecognised key is skipped as a whole
arrived(view, user, school, key, n) ==
  [view |-> view, user |-> user, school |-> school, key |-> key,
   left |-> IF recognised(view, key) THEN n ELSE 0]

\* the result dict once the key has been looked up
first_result(view, key) ==
  IF recognised(view, key) THEN setdefault(empty_result, key)
  ELSE empty_result

\* POST /api/sync/push/
push_sync_view ==
  /\ req = NoReq
  /\ \E user \in Users, key \in PayloadKeys, n \in 0..MaxBatch :
       /\ req' = arrived("push_sync_view", user, NoneV, key, n)
       /\ result' = first_result("push_sync_view", key)
  /\ UNCHANGED <<db, now, nextId, cur, notPush>>

\* POST to offline_sync_batch_view; request.school comes from the
\* School-ID header or the session
offline_sync_batch_view ==
  /\ req = NoReq
  /\ \E user \in Users, school \in SchoolIds \cup {NoneV},
        key \in PayloadKeys, n \in 0..MaxBatch :
       /\ req' = arrived("offline_sync_batch_view", user, school, key, n)
       /\ result' = first_result("offline_sync_batch_view", key)
  /\ UNCHANGED <<db, now, nextId, cur, notPush>>

\* for entry in items: the loop takes the next entry of the payload
NextEntry ==
  /\ req # NoReq
  /\ req.left > 0
  /\ cur = NoEntry
  /\ \E e \in Entries :
       /\ inserts(req.view, school_context(req), e) => nextId <= MaxId
       /\ cur' = e
  /\ UNCHANGED <<db, now, nextId, req, result, notPush>>

\* the loop body applied to the entry
HandleEntry ==
  /\ req # NoReq
  /\ cur # NoEntry
  /\ LET o == IF req.view = "push_sync_view"
              THEN push_sync_entry(db, nextId, now, cur)
              ELSE offline_sync_entry(db, nextId, now, school_context(req), cur)
     IN /\ db' = o.db
        /\ nextId' = o.nextId
        /\ result' = IF o.list = NoList THEN result
                     ELSE append(result, req.key, o.list)
        /\ req' = [req EXCEPT !.left = next_left(req.left, o.list)]
  /\ cur' = NoEntry
  /\ UNCHANGED <<now, notPush>>

\* return Response(result)
Respond ==
  /\ req # NoReq
  /\ req.left = 0
  /\ cur = NoEntry
  /\ req' = NoReq
  /\ UNCHANGED <<db, now, nextId, cur, result, notPush>>

NextPush ==
  \/ Tick
  \/ push_sync_view
  \/ offline_sync_batch_view
  \/ NextEntry
  \/ HandleEntry
  \/ Respond

Spec == InitPush /\ [][NextPush]_vars

TypeOK ==
  /\ db \in [Ids -> Rows \cup {NoRow}]
  /\ now \in Times
  /\ nextId \in 1..(MaxId + 1)

(***************************************************************************)
(* Properties of the push endpoints                                        *)
(***************************************************************************)
\* the step is one pass of the entry loop
Handled == cur # NoEntry /\ cur' = NoEntry

\* the entry was appended to list l of its key and to no other list
Reported(l) ==
  /\ result'[l][req.key] = result[l][req.key] + 1
  /\ \A m \in Lists \ {l} : result'[m] = result[m]

\* the school the serializer sees for the entry
SeenSchool ==
  IF req.view = "offline_sync_batch_view"
  THEN (IF req.school # NoneV THEN req.school
        ELSE IF req.user.school # NoneV THEN req.user.school
        ELSE cur.school)
  ELSE cur.school

\* the entry is an update for a row that exists
UpdatesRow ==
  /\ cur.action = "update"
  /\ cur.id # NoneV
  /\ db[cur.id] # NoRow

\* the entry is an update whose id names no row
UpdatesNothing ==
  /\ cur.action = "update"
  /\ cur.id # NoneV
  /\ db[cur.id] = NoRow

\* the row of the entry carries the entry's payload, stamped by the server,
\* and every other row is as before
Written ==
  /\ db'[cur.id].val = cur.val
  /\ db'[cur.id].updated_at = now
  /\ \A i \in Ids \ {cur.id} : db'[i] = db[i]

\* C1 as stated: an update of an existing record with a parseable updated_at
\* is a conflict, record unchanged, when the server's updated_at is strictly
\* newer, and is otherwise written and reported in updated
C1_AsStated ==
  [][ (Handled /\ UpdatesRow /\ cur.updated_at \in Times) =>
        IF db[cur.id].updated_at > cur.updated_at
        THEN Reported("conflicts") /\ db' = db
        ELSE Reported("updated") /\ Written ]_vars

\* C1 amended: as C1, where the write and the report in updated happen when
\* the data passes the serializer's validation; data that fails it is
\* reported in errors and the record is unchanged
C1_ConflictRule ==
  [][ (Handled /\ UpdatesRow /\ cur.updated_at \in Times) =>
        IF db[cur.id].updated_at > cur.updated_at
        THEN Reported("conflicts") /\ db' = db
        ELSE IF cur.val \in Vals
             THEN Reported("updated") /\ Written
             ELSE Reported("errors") /\ db' = db ]_vars

\* a conflict and an applied update were both reported for timestamped
\* update entries
C1_Witness ==
  /\ req # NoReq
  /\ req.key = "grades"
  /\ "grades" \in DOMAIN result["conflicts"]
  /\ result["conflicts"]["grades"] = 1
  /\ result["updated"]["grades"] = 1

\* C2 as stated: a push request of a user who is not super admin leaves
\* every record of another school as it was
C2_TenantIsolationPush ==
  [][ (Handled /\ req.user.role # "super_admin") =>
        \A i \in Ids :
          (db[i] # NoRow /\ db[i].school # req.user.school) =>
            db'[i] = db[i] ]_vars

\* C4 as stated: an update entry whose id is absent or names no record
\* creates the record and is reported in created
C4_AsStated ==
  [][ (Handled /\ cur.action = "update" /\ (cur.id = NoneV \/ UpdatesNothing))
        => Reported("created") /\ nextId' = nextId + 1 ]_vars

\* C4 amended: an update entry for an existing id updates in place (no row
\* is inserted); one whose id names no record inserts a row under a
\* server-assigned key and is reported in created when its data is valid,
\* and is reported in errors otherwise; one without id is reported in
\* errors; a delete entry removes the row with the given id
C4_Upsert ==
  [][ Handled =>
        /\ UpdatesRow =>
             /\ nextId' = nextId
             /\ Reported("updated") \/ Reported("conflicts") \/ Reported("errors")
             /\ \A i \in Ids \ {cur.id} : db'[i] = db[i]
        /\ UpdatesNothing =>
             IF cur.val \in Vals /\ SeenSchool # NoneV
             THEN /\ Reported("created")
                  /\ nextId' = nextId + 1
                  /\ db' = [db EXCEPT ![nextId] =
                              [school |-> SeenSchool, val |-> cur.val,
                               updated_at |-> now]]
             ELSE Reported("errors") /\ db' = db /\ nextId' = nextId
        /\ (cur.action = "update" /\ cur.id = NoneV) =>
             Reported("errors") /\ db' = db /\ nextId' = nextId
        /\ (cur.action = "delete" /\ cur.id # NoneV) =>
             db' = [db EXCEPT ![cur.id] = NoRow] ]_vars

\* an update entry for a missing id ended in created
C4_Witness ==
  /\ req # NoReq
  /\ req.key = "grades"
  /\ result["created"]["grades"] = 1
  /\ nextId = 3
  /\ db[2] # NoRow

Fails ==
  \/ cur.action = "create" /\ (cur.val = Invalid \/ SeenSchool = NoneV)
  \/ cur.action = "update" /\ cur.id = NoneV
  \/ UpdatesNothing /\ (cur.val = Invalid \/ SeenSchool = NoneV)
  \/ /\ UpdatesRow
     /\ ~(cur.updated_at \in Times /\ db[cur.id].updated_at > cur.updated_at)
     /\ cur.val = Invalid
  \/ cur.action = "delete" /\ cur.id = NoneV

LWWEntries ==
  { e \in Entries : /\ e.action = "update" /\ e.id = 1
                    /\ e.val \in Vals /\ e.updated_at \in Times }

InitLWW ==
  /\ InitTable
  /\ IdlePush
  /\ IdleLWW
  /\ IdleConc
  /\ IdlePull
  /\ IdleLetter
  /\ IdleGrade
  /\ IdleLater

TickLWW ==
  /\ now < MaxTime
  /\ now' = now + 1
  /\ UNCHANGED <<db, nextId, lwwVars, notLWW>>

\* a push_sync_view request whose payload is the one entry e
PushUpdate ==
  /\ \E e \in LWWEntries :
       LET o == push_sync_entry(db, nextId, now, e) IN
       /\ db' = o.db
       /\ nextId' = o.nextId
       /\ seen' = seen \cup {<<e.updated_at, e.val>>}
       /\ accepted' = IF db[1].updated_at <= e.updated_at THEN e.val
                      ELSE accepted
  /\ UNCHANGED <<now, notLWW>>

NextLWW == TickLWW \/ PushUpdate

SpecLWW == InitLWW /\ [][NextLWW]_vars

\* the greatest client-supplied updated_at received so far
MaxSeen == CHOOSE t \in {p[1] : p \in seen} : \A p \in seen : p[1] <= t

\* C5 as stated: the stored data is that of the entry with the greatest
\* client-supplied updated_at
C5_AsStated ==
  seen # {} => <<MaxSeen, db[1].val>> \in seen

\* C5 amended: the stored data is that of the entry that reached the server
\* last among those whose updated_at was not older than the server's
\* updated_at when they arrived (the server stamps its own clock on every
\* write); the outcome depends on the order of arrival
C5_ServerWins ==
  accepted # NoVal => db[1].val = accepted

\* two entries with different data and different timestamps were received
\* and the older server copy gave way to one of them
C5_Witness ==
  /\ <<0, "a">> \in seen
  /\ <<1, "b">> \in seen
  /\ accepted = "b"
  /\ db[1].val = "b"
  /\ db[1].updated_at = 1

(***************************************************************************)
(* SpecConc: two push requests, each with one update entry for record 1,   *)
(* served by two workers at the same time                                  *)
(***************************************************************************)
Workers == {1, 2}

\* update entries for record 1
ConcEntries == { e \in Entries : e.action = "update" /\ e.id = 1 }

InitConc ==
  /\ InitTable
  /\ IdlePush
  /\ IdleLWW
  /\ pc = <<"get", "get">>
  /\ held \in [Workers -> ConcEntries]
  /\ readRow = <<NoRow, NoRow>>
  /\ out = <<NoList, NoList>>
  /\ IdlePull
  /\ IdleLetter
  /\ IdleGrade
  /\ IdleLater

TickConc ==
  /\ now < MaxTime
  /\ now' = now + 1
  /\ UNCHANGED <<db, nextId, concVars, notConc>>

\* obj = Model.objects.get(id=obj_id): the worker reads the row
GetRow(w) ==
  /\ pc[w] = "get"
  /\ readRow' = [readRow EXCEPT ![w] = db[held[w].id]]
  /\ pc' = [pc EXCEPT ![w] = "compare"]
  /\ UNCHANGED <<tableVars, held, out, notConc>>

\* the conflict test and the validation, on the instance the worker holds
Compare(w) ==
  /\ pc[w] = "compare"
  /\ LET o == update_existing([db EXCEPT ![held[w].id] = readRow[w]],
                              nextId, now, held[w])
     IN IF o.list = "updated"
        THEN pc' = [pc EXCEPT ![w] = "save"] /\ out' = out
        ELSE pc' = [pc EXCEPT ![w] = "done"] /\
             out' = [out EXCEPT ![w] = o.list]
  /\ UNCHANGED <<tableVars, held, readRow, notConc>>

\* a save that writes only when the row is still as the worker read it
save_if_unchanged_mut(d, row, data, t) ==
  IF d[data.id] = row
  THEN save_existing([d EXCEPT ![data.id] = row], data.id, data, t)
  ELSE d

\* ser.Grade_save(): the instance the worker holds, with the client's data, is
\* written over the row, without a second look at the table
save_instance(d, row, data, t) ==
  save_existing([d EXCEPT ![data.id] = row], data.id, data, t)

Save(w) ==
  /\ pc[w] = "save"
  /\ db' = save_instance(db, readRow[w], held[w], now)
  /\ pc' = [pc EXCEPT ![w] = "done"]
  /\ out' = [out EXCEPT ![w] = "updated"]
  /\ UNCHANGED <<now, nextId, held, readRow, notConc>>

NextConc ==
  \/ TickConc
  \/ \E w \in Workers : GetRow(w)
  \/ \E w \in Workers : Compare(w)
  \/ \E w \in Workers : Save(w)

SpecConc == InitConc /\ [][NextConc]_vars

\* C7: a worker that passed the comparison writes its data and reports
\* updated, whatever has been written to the record since it read it
C7_CheckThenWrite ==
  [][ \A w \in Workers :
        (pc[w] = "save" /\ pc'[w] = "done") =>
          /\ db'[1].val = held[w].val
          /\ db'[1].updated_at = now
          /\ out'[w] = "updated" ]_vars

\* both workers read the record before either wrote, both carry a
\* timestamp, both wrote and reported updated, and the data of worker 1 is
\* gone
C7_Witness ==
  /\ pc = <<"done", "done">>
  /\ readRow[1] = [school |-> 2, val |-> "a", updated_at |-> 0]
  /\ readRow[2] = readRow[1]
  /\ held[1].updated_at \in Times
  /\ held[2].updated_at \in Times
  /\ held[1].val = "b"
  /\ held[2].val = "a"
  /\ out = <<"updated", "updated">>
  /\ db[1].val = "a"
  /\ db[1].updated_at = 1

(***************************************************************************)
(* SpecPull: the pull endpoints                                            *)
(***************************************************************************)
\* the models sync_view serialises, School first
PullModels == {"school", "user", "grade"}

\* a school id that names no School row
GhostSchool == Cardinality(SchoolIds) + 1

\* rows of the pull tables: the school foreign key and updated_at
NoPRow == [school |-> NoneV, updated_at |-> NoTime]

\* the databases a pull is made against: both schools, a teacher of each
\* school and a super admin, and up to two grades
PullTables ==
  LET PGrades == [school : SchoolIds, updated_at : Times] \cup {NoPRow} IN
  { [m \in PullModels |->
       CASE m = "school" ->
              << [school |-> NoneV, updated_at |-> ts],
                 [school |-> NoneV, updated_at |-> MaxTime],
                 NoPRow >>
         [] m = "user" ->
              << [school |-> 1, updated_at |-> MaxTime],
                 [school |-> 2, updated_at |-> MaxTime],
                 [school |-> NoneV, updated_at |-> MaxTime] >>
         [] OTHER -> << g1, g2, NoPRow >> ] :
      ts \in Times, g1 \in PGrades, g2 \in PGrades }

\* the requests: who asks, the School-ID header, the session's school_id,
\* the school_id query parameter and last_sync (NoTime: absent)
PullRequests ==
  [view : {"apps", "schools"},
   user : Users,
   header : SchoolIds \cup {NoneV, GhostSchool},
   session : SchoolIds \cup {NoneV},
   school_id : SchoolIds \cup {NoneV, GhostSchool},
   last_sync : Times \cup {NoTime, BadTime}]

\* School.objects.get(id=...) finds a row
school_exists(t, id) ==
  id \in DOMAIN t["school"] /\ t["school"][id] # NoPRow

\* MultiTenantMiddleware.process_request: request.school
process_request(t, header, session) ==
  IF header # NoneV
  THEN (IF school_exists(t, header) THEN header ELSE NoneV)
  ELSE IF session # NoneV
       THEN (IF school_exists(t, session) THEN session ELSE NoneV)
       ELSE NoneV

\* hasattr(model, 'school')
has_school(model) == model # "school"

\* the queryset of one model in the loop of sync_view
queryset(t, model, last_sync, context, user) ==
  LET changed == { i \in DOMAIN t[model] :
                     /\ t[model][i] # NoPRow
                     /\ t[model][i].updated_at > last_sync }
      of_school == { i \in changed : t[model][i].school = context }
  IN IF has_school(model) /\ context # NoneV THEN of_school
     ELSE IF model = "school" /\ user.role # "super_admin" THEN {}
     ELSE IF model = "user" /\ user.role # "super_admin"
          THEN (IF context # NoneV THEN of_school ELSE {})
          ELSE changed

\* the response body: every serialised row as <<model, id>>
serialised(t, last_sync, context, user) ==
  { mi \in PullModels \X (1..3) :
      mi[2] \in queryset(t, mi[1], last_sync, context, user) }

Response(status, rows, school_id) ==
  [status |-> status, rows |-> rows, school_id |-> school_id]

\* sync_view of apps/views.py
apps_sync(t, r) ==
  LET request_school == process_request(t, r.header, r.session)
      context == IF r.school_id # NoneV THEN r.school_id
                        ELSE request_school
  IN IF r.last_sync \in {NoTime, BadTime} THEN Response(400, {}, NoneV)
     ELSE IF r.school_id # NoneV /\ ~school_exists(t, r.school_id)
          THEN Response(400, {}, NoneV)
          ELSE Response(200, serialised(t, r.last_sync, context, r.user),
                        context)

\* sync_view of schools/views.py
schools_sync(t, r) ==
  LET request_school == process_request(t, r.header, r.session)
  IN IF r.last_sync \in {NoTime, BadTime} THEN Response(400, {}, NoneV)
     ELSE Response(200, serialised(t, r.last_sync, request_school, r.user),
                   NoneV)

InitPull ==
  /\ InitTable
  /\ IdlePush
  /\ IdleLWW
  /\ IdleConc
  /\ tables \in PullTables
  /\ pull \in PullRequests
  /\ resp = NoResp
  /\ IdleLetter
  /\ IdleGrade
  /\ IdleLater

\* GET /api/sync/ routed to apps.views.sync_view
sync_view ==
  /\ pull.view = "apps"
  /\ resp = NoResp
  /\ resp' = apps_sync(tables, pull)
  /\ UNCHANGED <<tables, pull, notPull>>

\* GET /api/sync/ routed to schools.views.sync_view
schools_sync_view ==
  /\ pull.view = "schools"
  /\ resp = NoResp
  /\ resp' = schools_sync(tables, pull)
  /\ UNCHANGED <<tables, pull, notPull>>

NextPull == sync_view \/ schools_sync_view

SpecPull == InitPull /\ [][NextPull]_vars

\* C3 as stated: every record returned to a user who is not super admin
\* belongs to the user's own school, and no School row is returned to such
\* a user
C3_TenantIsolationPull ==
  (resp.status = 200 /\ pull.user.role # "super_admin") =>
    \A mi \in resp.rows :
      /\ mi[1] # "school"
      /\ tables[mi[1]][mi[2]].school = pull.user.school

(***************************************************************************)
(* SpecLetter: Grade.calculate_letter_grade                                *)
(***************************************************************************)
\* a key that is absent from a range dict
Missing == -1

\* grade_range.get('min_score', 0)
DefaultMin == 0

\* grade_range.get('max_score', 100)
DefaultMax == 100

\* the value returned for None
PyNone == "None"

\* the scores tried
Scores == {0, 49, 50, 89, 90, 100}

\* the range dicts tried; grade "" stands for a dict without 'grade'
Ranges ==
  [grade : {"A", "B", ""}, min_score : {Missing, 50, 90},
   max_score : {Missing, 49, 89}]

\* lists of at most n ranges
RECURSIVE RangeLists(_)
RangeLists(n) ==
  IF n = 0 THEN {<<>>}
  ELSE LET shorter == RangeLists(n - 1)
       IN shorter \cup { Append(l, r) : l \in { x \in shorter : Len(x) = n - 1 },
                                        r \in Ranges }

\* x.get('min_score', 0)
get_min(r) == IF r.min_score = Missing THEN DefaultMin ELSE r.min_score

\* x.get('max_score', 100)
get_max(r) == IF r.max_score = Missing THEN DefaultMax ELSE r.max_score

\* insert r into the descending list l behind the elements whose key is
\* not smaller, as a stable sort does
RECURSIVE insert_desc(_, _)
insert_desc(l, r) ==
  IF l = <<>> THEN <<r>>
  ELSE IF get_min(Head(l)) >= get_min(r)
       THEN <<Head(l)>> \o insert_desc(Tail(l), r)
       ELSE <<r>> \o l

\* sorted(ranges, key=lambda x: x.get('min_score', 0), reverse=True)
RECURSIVE sorted_ranges(_)
sorted_ranges(l) ==
  IF l = <<>> THEN <<>>
  ELSE insert_desc(sorted_ranges(SubSeq(l, 1, Len(l) - 1)), l[Len(l)])

\* min_score <= self.score <= max_score
in_range_open_mut(r, score) == get_min(r) <= score /\ score < get_max(r)

in_range(r, score) == get_min(r) <= score /\ score <= get_max(r)

\* the for loop over the sorted ranges
RECURSIVE first_match(_, _)
first_match(l, score) ==
  IF l = <<>> THEN PyNone
  ELSE IF in_range(Head(l), score) THEN Head(l).grade
       ELSE first_match(Tail(l), score)

\* GradingScale.objects.filter(school=school).first(): lowest primary key
first_scale(scales, school) ==
  LET own == { i \in DOMAIN scales : scales[i].school = school }
  IN IF own = {} THEN <<>>
     ELSE scales[CHOOSE i \in own : \A j \in own : i <= j].ranges

\* Grade.calculate_letter_grade; a missing scale and an empty range list
\* both fail the test "grading_scale and grading_scale.ranges"
calculate_letter_grade(g, scales) ==
  IF g.score = NoScore THEN PyNone
  ELSE first_match(sorted_ranges(first_scale(scales, g.school)), g.score)

\* the GradingScale tables tried: none, one scale of the school, a scale of
\* another school before it, a second scale of the school behind it
ScaleTables ==
  LET other == <<[grade |-> "B", min_score |-> Missing, max_score |-> Missing]>>
  IN {<<>>}
     \cup { <<[school |-> 1, ranges |-> l]>> : l \in RangeLists(MaxRanges) }
     \cup { <<[school |-> 2, ranges |-> other], [school |-> 1, ranges |-> l]>> :
              l \in RangeLists(MaxRanges) }
     \cup { <<[school |-> 1, ranges |-> l], [school |-> 1, ranges |-> other]>> :
              l \in RangeLists(MaxRanges) }

InitLetter ==
  /\ InitTable
  /\ IdlePush
  /\ IdleLWW
  /\ IdleConc
  /\ IdlePull
  /\ lgrade \in [school : {1}, score : Scores \cup {NoScore}]
  /\ lscales \in ScaleTables
  /\ lresult = Pending
  /\ IdleGrade
  /\ IdleLater

\* grade.calculate_letter_grade()
CalculateLetterGrade ==
  /\ lresult = Pending
  /\ lresult' = calculate_letter_grade(lgrade, lscales)
  /\ UNCHANGED <<lgrade, lscales, notLetter>>

NextLetter == CalculateLetterGrade

SpecLetter == InitLetter /\ [][NextLetter]_vars

\* the ranges of the first scale of the grade's school, as configured
Configured ==
  LET own == { i \in DOMAIN lscales : lscales[i].school = lgrade.school }
  IN IF own = {} THEN <<>>
     ELSE lscales[CHOOSE i \in own : \A j \in own : j >= i].ranges

\* range i of the configured list holds the score, bounds inclusive
Holds(i) ==
  LET r == Configured[i]
      lo == IF r.min_score = Missing THEN 0 ELSE r.min_score
      hi == IF r.max_score = Missing THEN 100 ELSE r.max_score
  IN lo <= lgrade.score /\ lgrade.score <= hi

\* range i comes before range j in descending min_score order
Before(i, j) ==
  LET mi == IF Configured[i].min_score = Missing THEN 0
            ELSE Configured[i].min_score
      mj == IF Configured[j].min_score = Missing THEN 0
            ELSE Configured[j].min_score
  IN mi > mj \/ (mi = mj /\ i < j)

\* C9: the function returns the grade of the first range in descending
\* min_score order that holds the score, and None when the score is None or
\* no range of the school's first scale holds it
C9_LetterLookup ==
  lresult # Pending =>
    IF lgrade.score = NoScore \/ ~\E i \in DOMAIN Configured : Holds(i)
    THEN lresult = PyNone
    ELSE \E i \in DOMAIN Configured :
           /\ Holds(i)
           /\ \A j \in DOMAIN Configured : (Holds(j) /\ j # i) => Before(i, j)
           /\ lresult = Configured[i].grade

\* two configured ranges hold the score and the one with the greater
\* min_score, configured second, gave the grade
C9_Witness ==
  /\ lresult = "A"
  /\ lgrade.score = 50
  /\ Len(lscales) = 1
  /\ lscales[1].ranges =
       << [grade |-> "B", min_score |-> Missing, max_score |-> 89],
          [grade |-> "A", min_score |-> 50, max_score |-> Missing] >>

(***************************************************************************)
(* SpecGrade: saves of the Grade rows of one subject and grading period    *)
(***************************************************************************)
Students == {1, 2}

\* the scores entered
GScores == {40, 60, 95}

Letters == {"", "A", "B"}

\* the grading scale of the school: A from 90, B from 50 to 89
SchoolScale ==
  << [school |-> 1,
      ranges |-> << [grade |-> "B", min_score |-> 50, max_score |-> 89],
                    [grade |-> "A", min_score |-> 90, max_score |-> Missing] >>] >>

\* Grade.save: the letter is calculated when the grade is no override, has
\* a score and has no letter yet, and is kept when nothing is calculated
Grade_save(g) ==
  IF ~g.is_override /\ g.score # NoScore /\ g.letter_grade = ""
  THEN LET calculated ==
             calculate_letter_grade([school |-> 1, score |-> g.score],
                                    SchoolScale)
       IN IF calculated \notin {PyNone, ""}
          THEN [g EXCEPT !.letter_grade = calculated]
          ELSE g
  ELSE g

\* Grade.objects.get_or_create(...): an absent row is created with the
\* field defaults and saved
get_or_create(g) ==
  IF g = NoGrade
  THEN Grade_save([score |-> NoScore, letter_grade |-> "", is_override |-> FALSE])
  ELSE g

\* get_or_create, grade.score = score, grade.Grade_save()
enter_score(g, score) == Grade_save([get_or_create(g) EXCEPT !.score = score])

\* a blank score field or a file row that does not parse is skipped
entered(gs, posted) ==
  [s \in Students |-> IF posted[s] = NoScore THEN gs[s]
                      ELSE enter_score(gs[s], posted[s])]

\* the data of a sync entry for a Grade; "absent" and NoScore: key absent
GradeData ==
  [score : GScores \cup {NoScore},
   letter_grade : Letters \cup {"absent"},
   is_override : {"absent", "true", "false"}]

\* GradeSerializer(obj, data=data, partial=True).Grade_save(), and
\* GradeSerializer(data=data).Grade_save() for a student without a Grade
serializer_save(g, data) ==
  LET base == IF g = NoGrade
              THEN [score |-> NoScore, letter_grade |-> "",
                    is_override |-> FALSE]
              ELSE g
  IN Grade_save([score |-> IF data.score # NoScore THEN data.score ELSE base.score,
           letter_grade |-> IF data.letter_grade # "absent"
                            THEN data.letter_grade ELSE base.letter_grade,
           is_override |-> IF data.is_override = "absent"
                           THEN base.is_override
                           ELSE data.is_override = "true"])

InitGrade ==
  /\ InitTable
  /\ IdlePush
  /\ IdleLWW
  /\ IdleConc
  /\ IdlePull
  /\ IdleLetter
  /\ grades = [s \in Students |-> NoGrade]
  /\ IdleLater

\* POST to grade_bulk_entry with a score field per student
grade_bulk_entry ==
  /\ \E role \in {"super_admin", "admin", "teacher", "student"},
        posted \in [Students -> GScores \cup {NoScore}] :
       grades' = IF role \in {"super_admin", "admin", "teacher"}
                 THEN entered(grades, posted)
                 ELSE grades
  /\ UNCHANGED notGrade

\* POST to grade_import with a file of one row per student
grade_import ==
  /\ \E role \in {"super_admin", "admin", "teacher", "student"},
        rows \in [Students -> GScores \cup {NoScore}] :
       grades' = IF role \in {"super_admin", "admin", "teacher"}
                 THEN entered(grades, rows)
                 ELSE grades
  /\ UNCHANGED notGrade

\* an update entry of a push request for the Grade of a student
sync_update ==
  /\ \E s \in Students, data \in GradeData :
       grades' = [grades EXCEPT ![s] = serializer_save(grades[s], data)]
  /\ UNCHANGED notGrade

NextGrade == grade_bulk_entry \/ grade_import \/ sync_update

SpecGrade == InitGrade /\ [][NextGrade]_vars

\* the letter the school's scale gives for a score
ScaleLetter(score) ==
  IF 90 <= score /\ score <= 100 THEN "A"
  ELSE IF 50 <= score /\ score <= 89 THEN "B"
  ELSE ""

\* C10 as stated: a Grade that is no override and has a score stores the
\* letter the grading scale gives for its score
C10_LetterDerived ==
  \A s \in Students :
    (grades[s] # NoGrade /\ ~grades[s].is_override /\ grades[s].score # NoScore)
      => grades[s].letter_grade = ScaleLetter(grades[s].score)

(***************************************************************************)
(* SpecTenant: MultiTenantMiddleware.process_request                       *)
(***************************************************************************)
\* the three copies of the middleware class
TenantStacks == {"authentication", "apps", "schools"}

\* the School tables a request meets: each of the two schools exists or not
TenantTables ==
  LET SRows == {[school |-> NoneV, updated_at |-> 0], NoPRow}
  IN { << r1, r2, NoPRow >> : r1 \in SRows, r2 \in SRows }

\* the requests: the School-ID header (NoneV: absent or empty) and the
\* school_id of the session (NoneV: absent), which the server wrote
TenantRequests ==
  [stack : TenantStacks,
   header : SchoolIds \cup {NoneV, GhostSchool, Malformed},
   session : SchoolIds \cup {NoneV, GhostSchool}]

\* School.objects.get(id=school_id) raises ValueError, which the except
\* clause for School.DoesNotExist does not catch
get_raises_ValueError(r) == r.header = Malformed

\* process_request of one of the middleware classes, up to the response
\* status the request ends with when the lookup raises
MultiTenantMiddleware ==
  /\ \E stack \in TenantStacks : treq.stack = stack
  /\ tstatus = 0
  /\ IF get_raises_ValueError(treq)
     THEN /\ tschool' = tschool
          /\ tstatus' = 500
     ELSE /\ tschool' =
               process_request([m \in {"school"} |-> tschools],
                               treq.header, treq.session)
          /\ tstatus' = 200
  /\ UNCHANGED <<tschools, treq, notTenant>>

InitTenant ==
  /\ IdleNotTenant
  /\ tschools \in TenantTables
  /\ treq \in TenantRequests
  /\ tschool = Unset
  /\ tstatus = 0

NextTenant == MultiTenantMiddleware

SpecTenant == InitTenant /\ [][NextTenant]_vars

\* the school a request names exists
TenantExists(id) ==
  id \in SchoolIds /\ tschools[id] # NoPRow

\* C11: once the middleware has run, request.school is set: with a School-ID
\* header it is the school of that id, or None when no such school exists,
\* whatever the session holds; without a header it is the school the
\* session's school_id names, or None when the session has none or names no
\* school.
C11_TenantPriority ==
  tstatus # 0 =>
    /\ tschool # Unset
    /\ treq.header # NoneV =>
         tschool = (IF TenantExists(treq.header) THEN treq.header
                           ELSE NoneV)
    /\ treq.header = NoneV =>
         tschool = (IF TenantExists(treq.session) THEN treq.session
                           ELSE NoneV)

(***************************************************************************)
(* SpecApp: UserApplication.approve and reject, and application_review     *)
(***************************************************************************)
AppIds == {1, 2}

\* the users who review: a super admin, the admin of school 1, a teacher
Reviewers ==
  { [name |-> "root", role |-> "super_admin", school |-> NoneV],
    [name |-> "adm1", role |-> "admin", school |-> 1],
    [name |-> "tch1", role |-> "teacher", school |-> 1] }

ReviewNotes == {"", "n"}

\* the e-mail addresses asked for: one has capitals in its domain part
Emails == {"a@x.org", "a@X.org"}

\* the username "u1_compat" stands for 'u1' written with a compatibility
\* character (a full-width digit), which NFKC folds to 'u1'

\* a submitted application: status is 'pending' by default
Application(username, email, role, school) ==
  [username |-> username, email |-> email, role |-> role,
   school |-> school, status |-> "pending", reviewed_by |-> "none",
   review_notes |-> ""]

\* BaseUserManager.normalize_email: the domain part in lower case
normalize_email(email) == IF email = "a@X.org" THEN "a@x.org" ELSE email

\* AbstractBaseUser.normalize_username: unicodedata.normalize('NFKC', ..)
normalize_username(username) ==
  IF username = "u1_compat" THEN "u1" ELSE username

\* a User row, as far as the applications go
User(username, email, role, school) ==
  [username |-> username, email |-> email, role |-> role,
   school |-> school]

\* the unique constraint never fires
username_taken_never_mut(us, username) == FALSE

\* the unique constraint of User.username
username_taken(us, username) == \E u \in us : u.username = username

\* UserManager.create_user: normalises, then inserts; the insert raises
\* IntegrityError when the username is taken
create_user(us, username, email, role, school) ==
  LET name == normalize_username(username)
  IN IF username_taken(us, name) THEN us
     ELSE us \cup {User(name, normalize_email(email), role, school)}

create_user_raises(us, username) ==
  username_taken(us, normalize_username(username))

\* the guard left out
not_pending_never_mut(self) == FALSE

\* if self.status != 'pending': return False
not_pending(self) == self.status # "pending"

\* what a call returns and leaves behind
Called(ret, self, us) == [ret |-> ret, self |-> self, users |-> us]

\* UserApplication.approve: create_user raises IntegrityError when the
\* username is taken, before the status is touched
approve(self, reviewer, us) ==
  IF not_pending(self) THEN Called("False", self, us)
  ELSE IF create_user_raises(us, self.username)
       THEN Called("IntegrityError", self, us)
  ELSE Called("user",
              [self EXCEPT !.status = "approved",
                           !.reviewed_by = reviewer.name],
              create_user(us, self.username, self.email, self.role,
                          self.school))

\* UserApplication.reject
reject(self, reviewer, notes, us) ==
  IF not_pending(self) THEN Called("False", self, us)
  ELSE Called("True",
              [self EXCEPT !.status = "rejected",
                           !.reviewed_by = reviewer.name,
                           !.review_notes = notes],
              us)

\* the permission check of application_review
may_review(user, application) ==
  CASE user.role = "super_admin" -> application.role \in {"admin", "teacher"}
    [] user.role = "admin" -> /\ application.role = "teacher"
                              /\ application.school = user.school
    [] OTHER -> FALSE

\* ApplicationReviewForm(..., request=request): forms.Form takes no such
\* keyword, the constructor raises TypeError
form_raises_TypeError == TRUE

\* application_review: what the view answers for a user and an application
review_outcome(user, application) ==
  IF ~may_review(user, application) THEN "denied"
  ELSE IF application.status # "pending" THEN "already reviewed"
  ELSE IF form_raises_TypeError THEN "TypeError"
  ELSE "reviewed"

\* two applications are pending, and the username of either may be taken
\* by a user created since
InitApp ==
  /\ IdleNotApp
  /\ \E username \in {"u1", "u1_compat"}, email \in Emails :
       applications = << Application(username, email, "teacher", 1),
                         Application("u2", "a@x.org", "admin", NoneV) >>
  /\ accounts \in {{}, {User("u2", "b@x.org", "student", 1)},
                    {User("u1", "b@x.org", "student", 1)}}
  /\ called = NoCall
  /\ form_posted = NoPost

\* application.approve(reviewer) on the stored application
ApproveApplication ==
  \E id \in AppIds, reviewer \in Reviewers :
    LET c == approve(applications[id], reviewer, accounts)
    IN /\ applications' = [applications EXCEPT ![id] = c.self]
       /\ accounts' = c.users
       /\ called' = [op |-> "approve", id |-> id, ret |-> c.ret]
       /\ UNCHANGED <<form_posted, notApp>>

\* application.reject(reviewer, notes) on the stored application
RejectApplication ==
  \E id \in AppIds, reviewer \in Reviewers, notes \in ReviewNotes :
    LET c == reject(applications[id], reviewer, notes, accounts)
    IN /\ applications' = [applications EXCEPT ![id] = c.self]
       /\ accounts' = c.users
       /\ called' = [op |-> "reject", id |-> id, ret |-> c.ret]
       /\ UNCHANGED <<form_posted, notApp>>

\* no application is stored under the key
NoApplication ==
  [username |-> "", email |-> "", role |-> "none", school |-> NoneV,
   status |-> "none", reviewed_by |-> "none", review_notes |-> ""]

\* a POST to application_review for a stored application: the permission
\* and status checks, the form, then approve or reject as the form says
application_review ==
  \E id \in AppIds, user \in Reviewers, action \in {"approve", "reject"},
     notes \in ReviewNotes :
    /\ applications[id] # NoApplication
    /\ LET answer == review_outcome(user, applications[id])
           c == IF action = "approve"
                THEN approve(applications[id], user, accounts)
                ELSE reject(applications[id], user, notes, accounts)
       IN IF answer = "reviewed"
          THEN /\ applications' = [applications EXCEPT ![id] = c.self]
               /\ accounts' = c.users
               /\ called' = [op |-> "application_review", id |-> id,
                             ret |-> action]
          ELSE /\ called' = [op |-> "application_review", id |-> id,
                             ret |-> answer]
               /\ UNCHANGED <<applications, accounts>>
    /\ UNCHANGED <<form_posted, notApp>>

NextApp ==
  \/ ApproveApplication
  \/ RejectApplication
  \/ application_review

SpecApp == InitApp /\ [][NextApp]_vars

\* C12: approve and reject change a status only from pending to approved
\* or to rejected, never out of approved or rejected; called on an
\* application that is not pending they return False and leave the
\* applications and the users as they were.
C12_PendingWorkflow ==
  [][ /\ \A id \in AppIds :
           applications'[id].status # applications[id].status =>
             /\ applications[id].status = "pending"
             /\ applications'[id].status \in {"approved", "rejected"}
      /\ \A id \in AppIds :
           ( /\ called'.op \in {"approve", "reject"}
             /\ called'.id = id
             /\ applications[id].status # "pending" ) =>
             /\ called'.ret = "False"
             /\ applications' = applications
             /\ accounts' = accounts ]_vars

\* reject was called on an approved application whose user exists: it
\* returned False and the application is still approved
C12_Witness ==
  /\ called = [op |-> "reject", id |-> 1, ret |-> "False"]
  /\ applications[1].status = "approved"
  /\ applications[1].reviewed_by = "root"
  /\ \E u \in accounts : u.username = "u1"
  /\ applications[2].status = "rejected"

\* approve was called on the pending application id
ApproveCalled(id) ==
  /\ called'.op = "approve"
  /\ called'.id = id
  /\ applications[id].status = "pending"

\* the name and the address an account is stored under
StoredName(n) == IF n = "u1_compat" THEN "u1" ELSE n
StoredEmail(e) == IF e = "a@X.org" THEN "a@x.org" ELSE e

\* the step adds exactly one user, with this name, address, role, school
OneUser(name, email, role, school) ==
  \E u \in accounts' :
    /\ u \notin accounts
    /\ accounts' = accounts \cup {u}
    /\ u = [username |-> name, email |-> email, role |-> role,
            school |-> school]

\* the step marks the application approved by a reviewer
Approved(id) ==
  /\ applications'[id].status = "approved"
  /\ applications'[id].reviewed_by \in {r.name : r \in Reviewers}
  /\ \A other \in AppIds \ {id} : applications'[other] = applications[other]

\* the step leaves the users and the applications as they were
NothingCreated ==
  /\ accounts' = accounts
  /\ applications' = applications

\* C21 as stated: the user created carries the username and the email of
\* the application as they were submitted.
C21_AsStated ==
  [][ \A id \in AppIds :
        ApproveCalled(id) =>
          LET a == applications[id]
          IN IF called'.ret = "IntegrityError" THEN NothingCreated
             ELSE /\ OneUser(a.username, a.email, a.role, a.school)
                  /\ Approved(id) ]_vars

\* C21: approve on a pending application creates exactly one User whose
\* role and school are the application's and whose username and email are
\* the application's as create_user normalises them (username in NFKC
\* form, email with its domain part in lower case), and sets status =
\* 'approved' and reviewed_by; if that username is already taken no user
\* is created and the application remains pending; reject never creates a
\* user.
C21_ApproveCreatesUser ==
  [][ /\ \A id \in AppIds :
           ApproveCalled(id) =>
             LET a == applications[id]
             IN IF \E u \in accounts : u.username = StoredName(a.username)
                THEN NothingCreated
                ELSE /\ OneUser(StoredName(a.username),
                                StoredEmail(a.email), a.role, a.school)
                     /\ Approved(id)
      /\ called'.op = "reject" => accounts' = accounts ]_vars

\* approve of the first application created the user under the normalised
\* address, while the second application is still pending and its username
\* is taken by a student
C21_Witness ==
  /\ called = [op |-> "approve", id |-> 1, ret |-> "user"]
  /\ applications[1].email = "a@X.org"
  /\ applications[1].status = "approved"
  /\ [username |-> "u1", email |-> "a@x.org", role |-> "teacher",
      school |-> 1] \in accounts
  /\ applications[2].status = "pending"
  /\ \E u \in accounts : u.username = "u2" /\ u.role = "student"

(***************************************************************************)
(* SpecLog: the post_save and post_delete handlers of the audit trail      *)
(***************************************************************************)
\* the longest ChangeLog the model lets grow
MaxLog == 3

TRACKED_MODELS ==
  {"School", "User", "ClassSection", "Subject", "GradingScale",
   "GradingPeriod", "StudentEnrollment", "Grade", "Attendance",
   "UserApplication"}

\* the models whose instances are saved and deleted here: two tracked ones
\* and one that is not tracked
LogModels == {"School", "Attendance", "SupportTicket"}

LogObjects == LogModels \X Ids

\* model_to_dict(instance) holds a value json.dumps rejects: the dates of
\* GradingPeriod and Attendance, date_joined of User
json_rejects(model) == model \in {"User", "GradingPeriod", "Attendance"}

\* ChangeLog.objects.create(**kwargs) inside try/except Exception: pass;
\* the post_save of the ChangeLog row returns at once, ChangeLog is not
\* tracked
create_changelog_entry(log, model, id, action) ==
  IF json_rejects(model) THEN log
  ELSE Append(log, [model |-> model, object_id |-> id, action |-> action])

\* handle_post_save
handle_post_save(log, sender, id, created) ==
  IF sender \notin TRACKED_MODELS THEN log
  ELSE create_changelog_entry(log, sender, id,
                              IF created THEN "create" ELSE "update")

\* handle_post_delete
handle_post_delete(log, sender, id) ==
  IF sender \notin TRACKED_MODELS THEN log
  ELSE create_changelog_entry(log, sender, id, "delete")

InitLog ==
  /\ IdleNotLog
  /\ stored = {}
  /\ changelog = <<>>
  /\ lastop = NoOp

\* instance.save() of a new instance, then post_save with created=True
CreateInstance ==
  \E o \in LogObjects \ stored :
    /\ Len(changelog) < MaxLog
    /\ stored' = stored \cup {o}
    /\ changelog' = handle_post_save(changelog, o[1], o[2], TRUE)
    /\ lastop' = [model |-> o[1], id |-> o[2], action |-> "create"]
    /\ UNCHANGED notLog

\* instance.save() of a stored instance, then post_save with created=False
UpdateInstance ==
  \E o \in stored :
    /\ Len(changelog) < MaxLog
    /\ stored' = stored
    /\ changelog' = handle_post_save(changelog, o[1], o[2], FALSE)
    /\ lastop' = [model |-> o[1], id |-> o[2], action |-> "update"]
    /\ UNCHANGED notLog

\* instance.delete(), then post_delete
DeleteInstance ==
  \E o \in stored :
    /\ Len(changelog) < MaxLog
    /\ stored' = stored \ {o}
    /\ changelog' = handle_post_delete(changelog, o[1], o[2])
    /\ lastop' = [model |-> o[1], id |-> o[2], action |-> "delete"]
    /\ UNCHANGED notLog

NextLog ==
  \/ CreateInstance
  \/ UpdateInstance
  \/ DeleteInstance

SpecLog == InitLog /\ [][NextLog]_vars

\* C13: a create, update or delete of an instance of a tracked model
\* appends exactly one ChangeLog entry with the model name, the object id
\* and the action, after the entries of the earlier operations; an
\* operation on a model that is not tracked appends none.
C13_AuditTrail ==
  [][ /\ ( /\ lastop'.model \in TRACKED_MODELS
           /\ \/ stored' # stored
              \/ lastop' # lastop ) =>
             changelog' = Append(changelog,
                                 [model |-> lastop'.model,
                                  object_id |-> lastop'.id,
                                  action |-> lastop'.action])
      /\ lastop'.model \notin TRACKED_MODELS => changelog' = changelog ]_vars

(***************************************************************************)
(* SpecSchoolForm and SpecSchool: the School records                       *)
(***************************************************************************)
\* the most School rows the model lets exist
MaxSchools == 2

SchoolPks == 1..MaxSchools

\* a name is a stem, written in lower or upper case, with or without
\* white space around it; the stems are the empty string, one of one
\* character, two of two characters and one of 256 characters
Stems == {"", "x", "ab", "cd", "long"}

StemLen == [st \in Stems |->
              CASE st = "" -> 0
                [] st = "x" -> 1
                [] st = "long" -> 256
                [] OTHER -> 2]

\* clean_name: len(name) < 2
MinNameLen == 2

\* School.name: max_length=255
MaxNameLen == 255

SchoolNames ==
  { n \in [stem : Stems, upper : BOOLEAN, padded : BOOLEAN] :
      n.stem \in {"", "x", "long"} => ~n.upper }

\* the white space kept
strip_nothing_mut(n) == n

\* str.strip()
strip(n) == [n EXCEPT !.padded = FALSE]

\* len() of a stripped name
len(n) == StemLen[n.stem]

\* the lookup compares case too
iexact_exact_mut(a, b) == a = b

\* the lookup name__iexact
iexact(a, b) == [a EXCEPT !.upper = FALSE] = [b EXCEPT !.upper = FALSE]

\* School.objects.filter(name__iexact=name), as primary keys
filter_iexact(t, name) ==
  { i \in DOMAIN t : t[i] # NoName /\ iexact(t[i], name) }

\* School.objects.filter(name=name), the lookup of the unique validators
filter_exact(t, name) ==
  { i \in DOMAIN t : t[i] # NoName /\ t[i] = name }

\* the result of cleaning a name: the cleaned value, or an error on name
Cleaned(ok, name) == [ok |-> ok, name |-> name]

\* forms.CharField.clean of the name field: strip, required, max_length
field_clean(name) ==
  LET value == strip(name)
  IN IF len(value) = 0 THEN Cleaned(FALSE, value)
     ELSE IF len(value) > MaxNameLen THEN Cleaned(FALSE, value)
     ELSE Cleaned(TRUE, value)

\* SchoolForm.clean_name; pk is the instance's key, NoneV for a new one
clean_name(t, cleaned, pk) ==
  LET name == strip(cleaned)
      existing_school == filter_iexact(t, name) \ {pk}
  IN IF len(cleaned) = 0 THEN Cleaned(FALSE, cleaned)
     ELSE IF len(name) < MinNameLen THEN Cleaned(FALSE, name)
     ELSE IF len(name) > MaxNameLen THEN Cleaned(FALSE, name)
     ELSE IF existing_school # {} THEN Cleaned(FALSE, name)
     ELSE Cleaned(TRUE, name)

\* SchoolForm(data, instance).is_valid(): the field, clean_name, then the
\* model's validate_unique
SchoolForm(t, name, pk) ==
  LET f == field_clean(name)
      c == clean_name(t, f.name, pk)
  IN IF ~f.ok THEN f
     ELSE IF ~c.ok THEN c
     ELSE IF filter_exact(t, c.name) \ {pk} # {} THEN Cleaned(FALSE, c.name)
     ELSE c

\* SchoolSerializer(data, instance).is_valid(): trimmed, not blank, at
\* most max_length, unique
SchoolSerializer(t, name, pk) ==
  LET value == strip(name)
  IN IF len(value) = 0 THEN Cleaned(FALSE, value)
     ELSE IF len(value) > MaxNameLen THEN Cleaned(FALSE, value)
     ELSE IF filter_exact(t, value) \ {pk} # {} THEN Cleaned(FALSE, value)
     ELSE Cleaned(TRUE, value)

\* the roles of the users who ask: the super admin and one other
SRoles == {"super_admin", "teacher"}

\* the names posted to the views other than school_create: trimmed, one
\* too short
PostedNames == { n \in SchoolNames : ~n.padded /\ n.stem \in {"x", "ab", "cd"} }

\* a request to a web view: a GET, or a POST of a name
WebRequests(names) ==
  {[method |-> "GET", name |-> NoName]} \cup [method : {"POST"}, name : names]

SReq(view, role, method, name, pk) ==
  [view |-> view, role |-> role, method |-> method, name |-> name,
   pk |-> pk]

SResp(status, name_error) == [status |-> status, name_error |-> name_error]

\* a POST or GET to school_create
school_create ==
  \E role \in SRoles, r \in WebRequests(SchoolNames) :
    LET form == SchoolForm(schools, r.name, NoneV) IN
    /\ school_next <= MaxSchools
    /\ sreq' = SReq("school_create", role, r.method, r.name, NoneV)
    /\ IF role # "super_admin"
       THEN /\ sresp' = SResp(302, FALSE)
            /\ UNCHANGED <<schools, school_next>>
       ELSE IF r.method # "POST"
       THEN /\ sresp' = SResp(200, FALSE)
            /\ UNCHANGED <<schools, school_next>>
       ELSE IF ~form.ok
       THEN /\ sresp' = SResp(200, TRUE)
            /\ UNCHANGED <<schools, school_next>>
       ELSE IF filter_iexact(schools, strip(form.name)) # {}
       THEN /\ sresp' = SResp(200, TRUE)
            /\ UNCHANGED <<schools, school_next>>
       ELSE /\ schools' = [schools EXCEPT ![school_next] = form.name]
            /\ school_next' = school_next + 1
            /\ sresp' = SResp(302, FALSE)
    /\ UNCHANGED <<session_school, notSchool>>

\* a POST or GET to school_update
school_update ==
  \E role \in SRoles, r \in WebRequests(PostedNames), pk \in SchoolPks :
    LET form == SchoolForm(schools, r.name, pk) IN
    /\ sreq' = SReq("school_update", role, r.method, r.name, pk)
    /\ IF role # "super_admin"
       THEN /\ sresp' = SResp(302, FALSE)
            /\ schools' = schools
       ELSE IF schools[pk] = NoName
       THEN /\ sresp' = SResp(404, FALSE)
            /\ schools' = schools
       ELSE IF r.method # "POST"
       THEN /\ sresp' = SResp(200, FALSE)
            /\ schools' = schools
       ELSE IF ~form.ok
       THEN /\ sresp' = SResp(200, TRUE)
            /\ schools' = schools
       ELSE /\ schools' = [schools EXCEPT ![pk] = form.name]
            /\ sresp' = SResp(302, FALSE)
    /\ UNCHANGED <<school_next, session_school, notSchool>>

\* a POST or GET to school_delete
school_delete ==
  \E role \in SRoles, method \in {"GET", "POST"}, pk \in SchoolPks :
    /\ sreq' = SReq("school_delete", role, method, NoName, NoneV)
    /\ IF role # "super_admin"
       THEN /\ sresp' = SResp(302, FALSE)
            /\ schools' = schools
       ELSE IF schools[pk] = NoName
       THEN /\ sresp' = SResp(404, FALSE)
            /\ schools' = schools
       ELSE IF method # "POST"
       THEN /\ sresp' = SResp(200, FALSE)
            /\ schools' = schools
       ELSE /\ schools' = [schools EXCEPT ![pk] = NoName]
            /\ sresp' = SResp(302, FALSE)
    /\ UNCHANGED <<school_next, session_school, notSchool>>

\* IsSuperAdmin.has_permission of an authenticated user
IsSuperAdmin(role) == role = "super_admin"

\* what the API and the push endpoint are asked to do with a School
SchoolWrites(verbs) ==
  [verb : {verbs[1]}, name : PostedNames, pk : {NoneV}]
    \cup [verb : {verbs[2]}, name : PostedNames, pk : SchoolPks]
    \cup [verb : {verbs[3]}, name : {NoName}, pk : SchoolPks]

\* POST, PUT and DELETE on the SchoolViewSet of the API
SchoolViewSet ==
  \E role \in SRoles, r \in SchoolWrites(<<"POST", "PUT", "DELETE">>) :
    LET ser == SchoolSerializer(schools, r.name, r.pk) IN
    /\ r.verb = "POST" => school_next <= MaxSchools
    /\ sreq' = SReq("SchoolViewSet", role, r.verb, NoName, NoneV)
    /\ IF ~IsSuperAdmin(role)
       THEN /\ sresp' = SResp(403, FALSE)
            /\ UNCHANGED <<schools, school_next>>
       ELSE IF r.verb = "POST"
       THEN IF ser.ok
            THEN /\ schools' = [schools EXCEPT ![school_next] = ser.name]
                 /\ school_next' = school_next + 1
                 /\ sresp' = SResp(201, FALSE)
            ELSE /\ sresp' = SResp(400, TRUE)
                 /\ UNCHANGED <<schools, school_next>>
       ELSE IF schools[r.pk] = NoName
       THEN /\ sresp' = SResp(404, FALSE)
            /\ UNCHANGED <<schools, school_next>>
       ELSE IF r.verb = "DELETE"
       THEN /\ schools' = [schools EXCEPT ![r.pk] = NoName]
            /\ sresp' = SResp(204, FALSE)
            /\ school_next' = school_next
       ELSE IF ser.ok
       THEN /\ schools' = [schools EXCEPT ![r.pk] = ser.name]
            /\ sresp' = SResp(200, FALSE)
            /\ school_next' = school_next
       ELSE /\ sresp' = SResp(400, TRUE)
            /\ UNCHANGED <<schools, school_next>>
    /\ UNCHANGED <<session_school, notSchool>>

\* push_sync_view with one entry, without updated_at, under the key
\* "schools": the view asks for IsAuthenticated only
push_sync_schools ==
  \E role \in SRoles, r \in SchoolWrites(<<"create", "update", "delete">>) :
    LET falls_back == r.verb = "update" /\ schools[r.pk] = NoName
        creates == r.verb = "create" \/ falls_back
        ser == SchoolSerializer(schools, r.name,
                                IF creates THEN NoneV ELSE r.pk)
    IN
    /\ creates => school_next <= MaxSchools
    /\ sreq' = SReq("push_sync_view", role, r.verb, NoName, NoneV)
    /\ sresp' = SResp(200, FALSE)
    /\ IF creates
       THEN IF ser.ok
            THEN /\ schools' = [schools EXCEPT ![school_next] = ser.name]
                 /\ school_next' = school_next + 1
            ELSE UNCHANGED <<schools, school_next>>
       ELSE IF r.verb = "update"
       THEN /\ schools' = IF ser.ok
                          THEN [schools EXCEPT ![r.pk] = ser.name]
                          ELSE schools
            /\ school_next' = school_next
       ELSE /\ schools' = [schools EXCEPT ![r.pk] = NoName]
            /\ school_next' = school_next
    /\ UNCHANGED <<session_school, notSchool>>

\* school_switch with a school_id (NoneV: the empty string), as a GET
\* parameter or posted
school_switch ==
  \E role \in SRoles, method \in {"GET", "POST"},
     pk \in SchoolPks \cup {NoneV} :
    /\ sreq' = SReq("school_switch", role, method, NoName, NoneV)
    /\ IF role # "super_admin"
       THEN /\ sresp' = SResp(302, FALSE)
            /\ session_school' = session_school
       ELSE IF pk = NoneV
       THEN /\ sresp' = SResp(302, FALSE)
            /\ session_school' = NoneV
       ELSE IF method = "POST" /\ schools[pk] = NoName
       THEN /\ sresp' = SResp(500, FALSE)
            /\ session_school' = session_school
       ELSE /\ sresp' = SResp(302, FALSE)
            /\ session_school' = pk
    /\ UNCHANGED <<schools, school_next, notSchool>>

\* no schools yet
InitSchool ==
  /\ IdleNotSchool
  /\ schools = [pk \in SchoolPks |-> NoName]
  /\ school_next = 1
  /\ session_school = NoneV
  /\ sreq = NoSReq
  /\ sresp = NoSResp

NextSchoolForm ==
  \/ school_create
  \/ school_update

SpecSchoolForm == InitSchool /\ [][NextSchoolForm]_vars

NextSchool ==
  \/ school_create
  \/ school_update
  \/ school_delete
  \/ SchoolViewSet
  \/ push_sync_schools
  \/ school_switch

SpecSchool == InitSchool /\ [][NextSchool]_vars

\* the request just served is a POST of a super admin to school_create
CreatePosted ==
  /\ sreq'.view = "school_create"
  /\ sreq'.role = "super_admin"
  /\ sreq'.method = "POST"

\* a name without the white space around it, and its length
Trimmed(n) == [stem |-> n.stem, upper |-> n.upper, padded |-> FALSE]

NameLength(n) == StemLen[n.stem]

\* two names are equal ignoring case
SameIgnoringCase(a, b) == a.stem = b.stem /\ a.padded = b.padded

\* a school has the name, ignoring case
Taken(name) ==
  \E pk \in SchoolPks :
    schools[pk] # NoName /\ SameIgnoringCase(schools[pk], name)

\* exactly one School was added, named as submitted, trimmed
OneCreated ==
  \E pk \in SchoolPks :
    /\ schools[pk] = NoName
    /\ schools' = [schools EXCEPT ![pk] = Trimmed(sreq'.name)]

\* nothing was added and the form came back with an error on name
Rerendered ==
  /\ schools' = schools
  /\ sresp'.status = 200
  /\ sresp'.name_error

\* C14 as stated: a name of at least 2 characters that no school has,
\* ignoring case, is created; an empty, too short or duplicate name is not.
C14_AsStated ==
  [][ CreatePosted =>
        IF /\ NameLength(sreq'.name) >= 2
           /\ ~Taken(Trimmed(sreq'.name))
        THEN OneCreated
        ELSE Rerendered ]_vars

\* C14: a POST of a super admin to school_create adds exactly one School
\* with the trimmed name when the name has 2 to 255 characters and no
\* school has it, ignoring case; otherwise the schools are unchanged and
\* the form is rendered again, status 200, with an error on name.
C14_SchoolCreate ==
  [][ CreatePosted =>
        IF /\ NameLength(sreq'.name) >= 2
           /\ NameLength(sreq'.name) <= 255
           /\ ~Taken(Trimmed(sreq'.name))
        THEN OneCreated
        ELSE Rerendered ]_vars

\* a padded upper-case name was created after a lower-case one, trimmed
C14_Witness ==
  /\ sreq = SReq("school_create", "super_admin", "POST",
                 [stem |-> "cd", upper |-> TRUE, padded |-> TRUE], NoneV)
  /\ sresp = SResp(302, FALSE)
  /\ schools[1] = [stem |-> "ab", upper |-> FALSE, padded |-> FALSE]
  /\ schools[2] = [stem |-> "cd", upper |-> TRUE, padded |-> FALSE]

\* C15: no two School records have names that are equal ignoring case.
C15_UniqueNames ==
  \A i, j \in SchoolPks :
    ( /\ i # j
      /\ schools[i] # NoName
      /\ schools[j] # NoName ) => ~SameIgnoringCase(schools[i], schools[j])

\* two schools exist, and the last request tried to rename the second to
\* the name of the first in another case and was refused
C15_Witness ==
  /\ schools[1] = [stem |-> "ab", upper |-> FALSE, padded |-> FALSE]
  /\ schools[2] = [stem |-> "cd", upper |-> FALSE, padded |-> FALSE]
  /\ sreq = SReq("school_update", "super_admin", "POST",
                 [stem |-> "ab", upper |-> TRUE, padded |-> FALSE], 2)
  /\ sresp = SResp(200, TRUE)

\* C16: a request of a user who is not a super admin leaves the School
\* records and the session's school_id as they were.
C16_SuperAdminOnly ==
  [][ sreq'.role # "super_admin" =>
        /\ schools' = schools
        /\ session_school' = session_school ]_vars

(***************************************************************************)
(* SpecPerm: the permission classes                                        *)
(***************************************************************************)
ROLE_CHOICES == {"super_admin", "admin", "teacher", "student"}

\* request.user: a logged-in user of some role and school, or the
\* anonymous user
PermUsers ==
  [is_authenticated : {TRUE}, role : ROLE_CHOICES,
   school : SchoolIds \cup {NoneV}] \cup {NoPUser}

PermClasses ==
  {"IsSuperAdmin", "IsSchoolAdmin", "IsTeacher", "IsStudent",
   "IsTeacherOrAdmin"}

\* IsSchoolAdmin without the branch for super_admin
IsSchoolAdmin_admin_only_mut(user) ==
  IF ~user.is_authenticated THEN FALSE
  ELSE user.role = "admin" /\ user.school # NoneV

\* IsSchoolAdmin.has_permission
IsSchoolAdmin(user) ==
  IF ~user.is_authenticated THEN FALSE
  ELSE IF user.role = "super_admin" THEN TRUE
  ELSE user.role = "admin" /\ user.school # NoneV

\* IsTeacher.has_permission
IsTeacher(user) ==
  IF ~user.is_authenticated THEN FALSE
  ELSE user.role \in {"super_admin", "admin", "teacher"}

\* IsStudent.has_permission
IsStudent(user) ==
  IF ~user.is_authenticated THEN FALSE
  ELSE user.role \in {"super_admin", "admin", "teacher", "student"}

\* IsTeacherOrAdmin.has_permission
IsTeacherOrAdmin(user) ==
  IF ~user.is_authenticated THEN FALSE
  ELSE IF user.role = "super_admin" THEN TRUE
  ELSE user.role \in {"admin", "teacher"} /\ user.school # NoneV

\* has_permission of a permission class
has_permission(class, user) ==
  CASE class = "IsSuperAdmin" ->
         user.is_authenticated /\ IsSuperAdmin(user.role)
    [] class = "IsSchoolAdmin" -> IsSchoolAdmin(user)
    [] class = "IsTeacher" -> IsTeacher(user)
    [] class = "IsStudent" -> IsStudent(user)
    [] class = "IsTeacherOrAdmin" -> IsTeacherOrAdmin(user)

InitPerm ==
  /\ IdleNotPerm
  /\ puser \in PermUsers
  /\ pclass \in PermClasses
  /\ granted = Pending

\* the permission check of a request
CheckPermission ==
  /\ granted = Pending
  /\ granted' = IF has_permission(pclass, puser) THEN "granted"
                ELSE "denied"
  /\ UNCHANGED <<puser, pclass, notPerm>>

NextPerm == CheckPermission

SpecPerm == InitPerm /\ [][NextPerm]_vars

\* student < teacher < admin < super_admin
RoleRank(role) ==
  CASE role = "student" -> 1
    [] role = "teacher" -> 2
    [] role = "admin" -> 3
    [] role = "super_admin" -> 4

\* C17: a check that IsStudent, IsTeacher, IsTeacherOrAdmin or
\* IsSchoolAdmin grants to an authenticated user is also granted to the
\* user of every higher role with the same school; every class, IsSuperAdmin
\* included, denies a request that is not authenticated.
C17_Monotone ==
  /\ ( /\ granted = "granted"
       /\ pclass # "IsSuperAdmin" ) =>
       /\ puser.is_authenticated
       /\ \A role \in ROLE_CHOICES :
            RoleRank(role) > RoleRank(puser.role) =>
              has_permission(pclass, [puser EXCEPT !.role = role])
  /\ ( /\ granted # Pending
       /\ ~puser.is_authenticated ) => granted = "denied"

\* IsSchoolAdmin granted the admin of school 1
C17_Witness ==
  /\ granted = "granted"
  /\ pclass = "IsSchoolAdmin"
  /\ puser = [is_authenticated |-> TRUE, role |-> "admin", school |-> 1]

(***************************************************************************)
(* SpecCard: ReportCard.save, publish, unpublish, archive, the serializer   *)
(***************************************************************************)
CardIds == {1, 2}

CardStatus == {"draft", "published", "archived"}

\* a field the serializer's data leaves out
Absent == "absent"

\* the writable fields of ReportCardSerializer that matter here: status
\* and is_published; published_at is read-only
CardData ==
  [status : CardStatus \cup {Absent}, is_published : {"True", "False", Absent}]

\* ReportCard.save: published_at follows status, then the row is written
\* and auto_now stamps updated_at
ReportCard_save(self, clock) ==
  LET stamped ==
        IF self.status = "published" /\ self.published_at = NoTime
        THEN [self EXCEPT !.published_at = self.updated_at]
        ELSE IF self.status # "published"
             THEN [self EXCEPT !.published_at = NoTime]
             ELSE self
  IN [stamped EXCEPT !.updated_at = clock]

\* the instance with the fields of the data set on it
with_data(self, data) ==
  [self EXCEPT
     !.status = IF data.status = Absent THEN @ ELSE data.status,
     !.is_published = IF data.is_published = Absent THEN @
                      ELSE data.is_published = "True"]

\* a new instance: status 'draft', is_published False, no timestamps
NewCard == [status |-> "draft", is_published |-> FALSE,
            published_at |-> NoTime, updated_at |-> NoTime]

InitCard ==
  /\ IdleNotCard
  /\ cards = [id \in CardIds |-> NoCard]
  /\ card_clock = 0

\* time passes
TickCard ==
  /\ card_clock < MaxTime
  /\ card_clock' = card_clock + 1
  /\ UNCHANGED <<cards, notCard>>

\* ReportCardSerializer(data=...).save(): a new row
ReportCardSerializer_create ==
  \E id \in CardIds, data \in CardData :
    /\ cards[id] = NoCard
    /\ cards' = [cards EXCEPT
                   ![id] = ReportCard_save(with_data(NewCard, data),
                                           card_clock)]
    /\ UNCHANGED <<card_clock, notCard>>

\* ReportCardSerializer(instance, data=..., partial=True).save()
ReportCardSerializer_update ==
  \E id \in CardIds, data \in CardData :
    /\ cards[id] # NoCard
    /\ cards' = [cards EXCEPT
                   ![id] = ReportCard_save(with_data(cards[id], data),
                                           card_clock)]
    /\ UNCHANGED <<card_clock, notCard>>

\* ReportCard.publish
publish ==
  \E id \in CardIds :
    /\ cards[id] # NoCard
    /\ cards' = [cards EXCEPT
                   ![id] = ReportCard_save(
                             [cards[id] EXCEPT !.status = "published",
                                               !.is_published = TRUE,
                                               !.published_at = card_clock],
                             card_clock)]
    /\ UNCHANGED <<card_clock, notCard>>

\* ReportCard.unpublish
unpublish ==
  \E id \in CardIds :
    /\ cards[id] # NoCard
    /\ cards' = [cards EXCEPT
                   ![id] = ReportCard_save(
                             [cards[id] EXCEPT !.status = "draft",
                                               !.is_published = FALSE,
                                               !.published_at = NoTime],
                             card_clock)]
    /\ UNCHANGED <<card_clock, notCard>>

\* ReportCard.archive
archive ==
  \E id \in CardIds :
    /\ cards[id] # NoCard
    /\ cards' = [cards EXCEPT
                   ![id] = ReportCard_save(
                             [cards[id] EXCEPT !.status = "archived",
                                               !.is_published = FALSE,
                                               !.published_at = NoTime],
                             card_clock)]
    /\ UNCHANGED <<card_clock, notCard>>

NextCard ==
  \/ TickCard
  \/ ReportCardSerializer_create
  \/ ReportCardSerializer_update
  \/ publish
  \/ unpublish
  \/ archive

SpecCard == InitCard /\ [][NextCard]_vars

\* C18: a stored report card has is_published = True exactly when its
\* status is 'published', and a published_at exactly when its status is
\* 'published'.
C18_PublishedFlags ==
  \A id \in CardIds :
    cards[id] # NoCard =>
      /\ cards[id].is_published <=> cards[id].status = "published"
      /\ cards[id].published_at # NoTime <=> cards[id].status = "published"

(***************************************************************************)
(* SpecTemplate: ReportTemplate.save and the template views                *)
(***************************************************************************)
\* the most ReportTemplate rows the model lets exist
MaxTemplates == 3

TemplateIds == 1..MaxTemplates

\* no row is updated
clear_defaults_none_mut(t, school) == t

\* ReportTemplate.objects.filter(school=..., is_default=True)
\*   .update(is_default=False)
clear_defaults(t, school) ==
  [id \in DOMAIN t |->
     IF t[id] # NoTemplate /\ t[id].school = school /\ t[id].is_default
     THEN [t[id] EXCEPT !.is_default = FALSE]
     ELSE t[id]]

\* ReportTemplate.save of the instance self, stored under id
ReportTemplate_save(t, id, self) ==
  LET cleared == IF self.is_default THEN clear_defaults(t, self.school)
                 ELSE t
  IN [cleared EXCEPT ![id] = self]

\* the users of the template views: role admin or teacher, with a school
TemplateUsers == SchoolIds

InitTemplate ==
  /\ IdleNotTemplate
  /\ templates = [id \in TemplateIds |-> NoTemplate]
  /\ tsaved = NoSave

\* a valid POST to template_create by a user of the school
template_create ==
  \E id \in TemplateIds, school \in TemplateUsers, is_default \in BOOLEAN :
    /\ templates[id] = NoTemplate
    /\ templates' = ReportTemplate_save(templates, id,
                      [school |-> school, is_default |-> is_default,
                       is_active |-> TRUE])
    /\ tsaved' = [id |-> id, is_default |-> is_default]
    /\ UNCHANGED notTemplate

\* a valid POST to template_edit by a user of the template's school
template_edit ==
  \E id \in TemplateIds, is_default \in BOOLEAN, is_active \in BOOLEAN :
    /\ templates[id] # NoTemplate
    /\ templates' = ReportTemplate_save(templates, id,
                      [templates[id] EXCEPT !.is_default = is_default,
                                            !.is_active = is_active])
    /\ tsaved' = [id |-> id, is_default |-> is_default]
    /\ UNCHANGED notTemplate

\* a valid POST to template_import: objects.create with is_default=False
template_import ==
  \E id \in TemplateIds, school \in TemplateUsers :
    /\ templates[id] = NoTemplate
    /\ templates' = ReportTemplate_save(templates, id,
                      [school |-> school, is_default |-> FALSE,
                       is_active |-> TRUE])
    /\ tsaved' = [id |-> id, is_default |-> FALSE]
    /\ UNCHANGED notTemplate

\* template_delete of a template that is not the default: archived when
\* it has been used, deleted otherwise
template_delete ==
  \E id \in TemplateIds, used \in BOOLEAN :
    /\ templates[id] # NoTemplate
    /\ ~templates[id].is_default
    /\ IF used
       THEN /\ templates' = ReportTemplate_save(templates, id,
                              [templates[id] EXCEPT !.is_active = FALSE])
            /\ tsaved' = [id |-> id, is_default |-> FALSE]
       ELSE /\ templates' = [templates EXCEPT ![id] = NoTemplate]
            /\ tsaved' = NoSave
    /\ UNCHANGED notTemplate

NextTemplate ==
  \/ template_create
  \/ template_edit
  \/ template_import
  \/ template_delete

SpecTemplate == InitTemplate /\ [][NextTemplate]_vars

\* the default templates of a school
Defaults(school) ==
  { id \in TemplateIds :
      /\ templates[id] # NoTemplate
      /\ templates[id].school = school
      /\ templates[id].is_default }

\* C19: at most one ReportTemplate of each school has is_default = True,
\* and a template just saved with is_default = True is the only default of
\* its school.
C19_OneDefault ==
  /\ \A school \in SchoolIds : Cardinality(Defaults(school)) <= 1
  /\ ( /\ tsaved # NoSave
       /\ tsaved.is_default ) =>
       Defaults(templates[tsaved.id].school) = {tsaved.id}

\* template 2 was just saved as the default of school 1, which has another
\* template, and school 2 keeps its own default
C19_Witness ==
  /\ tsaved = [id |-> 2, is_default |-> TRUE]
  /\ templates[1] = [school |-> 1, is_default |-> FALSE, is_active |-> TRUE]
  /\ templates[2] = [school |-> 1, is_default |-> TRUE, is_active |-> TRUE]
  /\ templates[3] = [school |-> 2, is_default |-> TRUE, is_active |-> TRUE]

(***************************************************************************)
(* SpecTicket: SupportTicket.save                                          *)
(***************************************************************************)
TicketIds == {1, 2}

TicketStatus == {"open", "in_progress", "resolved", "closed"}

\* SupportTicket.save: resolved_at follows status, then the row is written
\* and auto_now stamps updated_at
SupportTicket_save(self, clock) ==
  LET stamped ==
        IF self.status = "resolved" /\ self.resolved_at = NoTime
        THEN [self EXCEPT !.resolved_at = self.updated_at]
        ELSE IF self.status # "resolved"
             THEN [self EXCEPT !.resolved_at = NoTime]
             ELSE self
  IN [stamped EXCEPT !.updated_at = clock]

\* a new instance with the given status
NewTicket(status) ==
  [status |-> status, resolved_at |-> NoTime, updated_at |-> NoTime]

InitTicket ==
  /\ IdleNotTicket
  /\ tickets = [id \in TicketIds |-> NoTicket]
  /\ ticket_clock = 0

\* time passes
TickTicket ==
  /\ ticket_clock < MaxTime
  /\ ticket_clock' = ticket_clock + 1
  /\ UNCHANGED <<tickets, notTicket>>

\* a valid POST to support_ticket_create: the form has no status field,
\* the ticket is saved with the default 'open'
support_ticket_create ==
  \E id \in TicketIds :
    /\ tickets[id] = NoTicket
    /\ tickets' = [tickets EXCEPT
                     ![id] = SupportTicket_save(NewTicket("open"),
                                                ticket_clock)]
    /\ UNCHANGED <<ticket_clock, notTicket>>

\* a create through SupportTicketSerializer, whose fields include status
SupportTicketSerializer_create ==
  \E id \in TicketIds, status \in TicketStatus :
    /\ tickets[id] = NoTicket
    /\ tickets' = [tickets EXCEPT
                     ![id] = SupportTicket_save(NewTicket(status),
                                                ticket_clock)]
    /\ UNCHANGED <<ticket_clock, notTicket>>

\* a valid POST to support_ticket_update: SupportTicketAdminForm sets status
support_ticket_update ==
  \E id \in TicketIds, status \in TicketStatus :
    /\ tickets[id] # NoTicket
    /\ tickets' = [tickets EXCEPT
                     ![id] = SupportTicket_save(
                               [tickets[id] EXCEPT !.status = status],
                               ticket_clock)]
    /\ UNCHANGED <<ticket_clock, notTicket>>

NextTicket ==
  \/ TickTicket
  \/ support_ticket_create
  \/ SupportTicketSerializer_create
  \/ support_ticket_update

SpecTicket == InitTicket /\ [][NextTicket]_vars

\* C20: a saved ticket has a resolved_at exactly when its status is
\* 'resolved', a ticket first saved as resolved included.
C20_ResolvedAt ==
  \A id \in TicketIds :
    tickets[id] # NoTicket =>
      (tickets[id].resolved_at # NoTime <=> tickets[id].status = "resolved")

(***************************************************************************)
(* The school context and the deletes of the push endpoints (Spec)         *)
(***************************************************************************)
\* the school context the request resolves: request.school, else the
\* school of the user, else none
Resolved == IF req.school # NoneV THEN req.school ELSE req.user.school

\* the rows the step inserted or rewrote
Stored == {i \in Ids : db'[i] # NoRow /\ db'[i] # db[i]}

\* C22: in offline_sync_batch_view, when the request resolves a school
\* context, every record the request creates or updates is stored with
\* school equal to that context, whatever school the client put in data.
C22_SchoolEnforced ==
  [][ ( /\ Handled
        /\ req.view = "offline_sync_batch_view"
        /\ Resolved # NoneV ) =>
        \A i \in Stored : db'[i].school = Resolved ]_vars

\* a teacher of school 1 sent School-ID 2: the row of school 2 was updated
\* and a second row was created, both stored under school 2
C22_Witness ==
  /\ req.view = "offline_sync_batch_view"
  /\ req.user.school = 1
  /\ req.school = 2
  /\ req.key = "grades"
  /\ result["updated"]["grades"] = 1
  /\ result["created"]["grades"] = 1
  /\ db[1] # NoRow /\ db[1].school = 2 /\ db[1].updated_at > 0
  /\ db[2] # NoRow /\ db[2].school = 2

\* a delete entry {action: 'delete', data: {id: id}}
DeleteEntry(id) ==
  [action |-> "delete", id |-> id, updated_at |-> NoTime,
   school |-> NoneV, val |-> NoVal]

\* the tables a delete batch may meet
DeleteTables == [Ids -> Rows \cup {NoRow}]

\* the batches of delete entries, as the ids they name (NoneV: no id)
DeleteBatches == UNION {[1..n -> Ids \cup {NoneV}] : n \in 1..MaxBatch}

\* a client is about to send a batch of delete entries to one of the views
InitDelete ==
  /\ IdleNotDelete
  /\ dtable \in DeleteTables
  /\ once = dtable
  /\ dlist = NoList
  /\ \E view \in {"push_sync_view", "offline_sync_batch_view"},
        school \in {NoneV, 1}, ids \in DeleteBatches :
       dreq = [view |-> view, school |-> school, ids |-> ids, pos |-> 1,
               pass |-> 1]

\* the loop body applied to the next delete entry of the batch; once is
\* the table as the first pass leaves it
delete_entry ==
  /\ dreq.pos <= Len(dreq.ids)
  /\ LET e == DeleteEntry(dreq.ids[dreq.pos])
         o == IF dreq.view = "push_sync_view"
              THEN push_sync_entry(dtable, MaxId + 1, 0, e)
              ELSE offline_sync_entry(dtable, MaxId + 1, 0, dreq.school, e)
     IN /\ dtable' = o.db
        /\ dlist' = o.list
        /\ once' = IF dreq.pass = 1 THEN o.db ELSE once
  /\ dreq' = [dreq EXCEPT !.pos = @ + 1]
  /\ UNCHANGED notDelete

\* the client sends the same batch a second time
send_again ==
  /\ dreq.pos > Len(dreq.ids)
  /\ dreq.pass = 1
  /\ dreq' = [dreq EXCEPT !.pos = 1, !.pass = 2]
  /\ UNCHANGED <<dtable, once, dlist, notDelete>>

NextDelete ==
  \/ delete_entry
  \/ send_again

SpecDelete == InitDelete /\ [][NextDelete]_vars

\* the step handles a delete entry whose id names no record
DeletesNothing ==
  /\ dreq'.pos = dreq.pos + 1
  /\ dreq.ids[dreq.pos] # NoneV
  /\ dtable[dreq.ids[dreq.pos]] = NoRow

\* C23: a delete entry for an id with no record leaves every record
\* unchanged and produces no error, and offline_sync_batch_view still
\* reports the id in deleted; applying the same delete batch twice yields
\* the same server state as applying it once.
C23_DeleteIdempotent ==
  /\ [][ DeletesNothing =>
           /\ dtable' = dtable
           /\ dlist' # "errors"
           /\ (dreq.view = "offline_sync_batch_view" => dlist' = "deleted")
       ]_vars
  /\ [](dreq.pass = 2 => dtable = once)

\* offline_sync_batch_view has run twice over the batch that deletes the
\* rows 1 and 2: the second pass found no record of either, left the table
\* as the first pass did and reported the last entry in deleted
C23_Witness ==
  /\ dreq.view = "offline_sync_batch_view"
  /\ dreq.pass = 2
  /\ dreq.ids = <<1, 2>>
  /\ dreq.pos = 3
  /\ dlist = "deleted"
  /\ dtable = [i \in Ids |-> IF i \in {1, 2} THEN NoRow ELSE once[i]]
  /\ dtable = once

(***************************************************************************)
(* SpecDash: dashboard_view and its cache                                  *)
(***************************************************************************)
\* the clock runs over 0, TickSeconds, .., MaxTicks * TickSeconds
MaxTicks == 5
\* a count stays within 0..MaxCount
MaxCount == 2

\* seconds between two readings of the clock
TickSeconds == 100

\* cache.set(key, value, 300)
CacheSeconds == 300

\* the cache keys of a super admin and of a user of school 1
CacheKeys == {"schools_count", "classes_count_1"}

\* who asks for the dashboard: a super admin, a teacher of school 1, a
\* user without a school
DashUsers ==
  { [role |-> "super_admin", school |-> NoneV],
    [role |-> "teacher", school |-> 1],
    [role |-> "teacher", school |-> NoneV] }

\* the keys the branch of dashboard_view taken for the user reads
dashboard_keys(user) ==
  IF user.role = "super_admin" THEN {"schools_count"}
  ELSE IF user.school # NoneV THEN {"classes_count_1"}
  ELSE {}

\* cache.get(key, default): the cached value until it expires
cache_get(c, key, default, clock) ==
  IF clock < c[key].expires THEN c[key].value ELSE default

\* cache.set(key, value, timeout)
cache_set(c, key, value, timeout, clock) ==
  [c EXCEPT ![key] = [value |-> value, expires |-> clock + timeout]]

InitDash ==
  /\ IdleNotDash
  /\ IdleDash

\* time passes
TickDash ==
  /\ dash_clock < MaxTicks * TickSeconds
  /\ dash_clock' = dash_clock + TickSeconds
  /\ UNCHANGED <<counts, changed_at, dash_cache, shown, notDash>>

\* a row is created or deleted: the count behind a key changes
change_count ==
  \E key \in CacheKeys, n \in 0..MaxCount :
    /\ n \in {counts[key] + 1, counts[key] - 1}
    /\ counts' = [counts EXCEPT ![key] = n]
    /\ changed_at' = [changed_at EXCEPT ![key] = dash_clock]
    /\ UNCHANGED <<dash_clock, dash_cache, shown, notDash>>

\* GET of dashboard_view: each count is read from the cache, the database
\* count being the default, and written back for another 300 seconds
dashboard_view ==
  \E user \in DashUsers :
    /\ dashboard_keys(user) # {}
    /\ LET key == CHOOSE k \in dashboard_keys(user) : TRUE
           value == cache_get(dash_cache, key, counts[key], dash_clock)
       IN /\ dash_cache' =
               cache_set(dash_cache, key, value, CacheSeconds, dash_clock)
          /\ shown' = [key |-> key, value |-> value, at |-> dash_clock]
    /\ UNCHANGED <<dash_clock, counts, changed_at, notDash>>

NextDash ==
  \/ TickDash
  \/ change_count
  \/ dashboard_view

SpecDash == InitDash /\ [][NextDash]_vars

\* C24: a dashboard request made more than 300 seconds after a change
\* shows the count that includes that change.
C24_CacheFresh ==
  ( /\ shown # NoShown
    /\ shown.at = dash_clock
    /\ shown.at > changed_at[shown.key] + 300 ) =>
    shown.value = counts[shown.key]

(***************************************************************************)
(* SpecRegister: register_view and application_review                      *)
(***************************************************************************)
\* the registration forms posted, for school 1: role is a choice of
\* User.ROLE_CHOICES
RegisterForms ==
  [username : {"u1", "u1_compat", "u2"}, email : Emails,
   role : ROLE_CHOICES, school : {1}]

\* every role registers directly
registers_directly_any_mut(role) == TRUE

\* if role == 'student'
registers_directly(role) == role = "student"

\* UserApplicationForm.is_valid: clean_username, clean_email and the
\* unique username of the UserApplication rows
UserApplicationForm_is_valid(apps, us, form) ==
  /\ ~ \E u \in us : u.username = form.username
  /\ ~ \E id \in AppIds : apps[id].username = form.username
  /\ ~ \E u \in us : u.email = form.email

\* nobody has registered
InitRegister ==
  /\ IdleNotApp
  /\ applications = [id \in AppIds |-> NoApplication]
  /\ accounts = {}
  /\ called = NoCall
  /\ form_posted = NoPost

\* a POST to register_view by an anonymous visitor
register_view ==
  \E form \in RegisterForms :
    /\ form_posted' = form
    /\ IF ~ UserApplicationForm_is_valid(applications, accounts, form)
       THEN /\ called' = [op |-> "register_view", id |-> NoneV,
                          ret |-> "invalid"]
            /\ UNCHANGED <<applications, accounts>>
       ELSE IF registers_directly(form.role)
       THEN IF create_user_raises(accounts, form.username)
            THEN /\ called' = [op |-> "register_view", id |-> NoneV,
                               ret |-> "IntegrityError"]
                 /\ UNCHANGED <<applications, accounts>>
            ELSE /\ accounts' = create_user(accounts, form.username,
                                            form.email, form.role,
                                            form.school)
                 /\ called' = [op |-> "register_view", id |-> NoneV,
                               ret |-> "user"]
                 /\ UNCHANGED applications
       ELSE \E id \in AppIds :
              /\ applications[id] = NoApplication
              /\ \A lower \in AppIds :
                   lower < id => applications[lower] # NoApplication
              /\ applications' =
                   [applications EXCEPT
                      ![id] = Application(form.username, form.email,
                                          form.role, form.school)]
              /\ called' = [op |-> "register_view", id |-> id,
                            ret |-> "application"]
              /\ UNCHANGED accounts
    /\ UNCHANGED notApp

NextRegister ==
  \/ register_view
  \/ application_review

SpecRegister == InitRegister /\ [][NextRegister]_vars

\* the step is a POST to register_view
Registered == called'.op = "register_view" /\ form_posted' # NoPost

\* the reviewer may approve the application: a super admin, or for a
\* teacher the admin of the school applied to
Permitted(reviewer, a) ==
  \/ reviewer.role = "super_admin"
  \/ /\ reviewer.role = "admin"
     /\ a.role = "teacher"
     /\ a.school = reviewer.school

\* the user comes from an approved application that a permitted reviewer
\* reviewed
FromApproval(u) ==
  \E id \in AppIds :
    /\ applications[id].status = "approved"
    /\ applications[id].role = u.role
    /\ StoredName(applications[id].username) = u.username
    /\ \E r \in Reviewers :
         /\ r.name = applications[id].reviewed_by
         /\ Permitted(r, applications[id])

Savers == {1, 2}

\* the instance a request saves: a template of school 1, is_default = True
SavedTemplate == [school |-> 1, is_default |-> TRUE, is_active |-> TRUE]

\* the defaults of a school among the rows t
defaults_of(t, school) ==
  { id \in DOMAIN t :
      t[id] # NoTemplate /\ t[id].school = school /\ t[id].is_default }

\* the rows the two requests may find: no school has two defaults, the
\* templates 1 and 2 are new or belong to school 1
RaceTables ==
  { t \in [TemplateIds -> [school : SchoolIds, is_default : BOOLEAN,
                           is_active : {TRUE}] \cup {NoTemplate}] :
      /\ \A school \in SchoolIds : Cardinality(defaults_of(t, school)) <= 1
      /\ \A id \in Savers : t[id] # NoTemplate => t[id].school = 1 }

\* two requests are about to call save; the database either lets their
\* statements interleave or, like SQLite, makes the second writer wait
\* until the first has committed
InitRace ==
  /\ IdleNotRace
  /\ trows \in RaceTables
  /\ saving = [w \in Savers |-> "clear"]
  /\ serialized \in BOOLEAN

\* ReportTemplate.objects.filter(school=self.school, is_default=True)
\*   .update(is_default=False), the first statement of save
clear_statement ==
  \E w \in Savers :
    /\ saving[w] = "clear"
    /\ serialized => \A other \in Savers : saving[other] # "write"
    /\ trows' = clear_defaults(trows, SavedTemplate.school)
    /\ saving' = [saving EXCEPT ![w] = "write"]
    /\ UNCHANGED <<serialized, notRace>>

\* super().save(*args, **kwargs), the second statement of save
super_save ==
  \E w \in Savers :
    /\ saving[w] = "write"
    /\ trows' = [trows EXCEPT ![w] = SavedTemplate]
    /\ saving' = [saving EXCEPT ![w] = "done"]
    /\ UNCHANGED <<serialized, notRace>>

NextRace ==
  \/ clear_statement
  \/ super_save

SpecRace == InitRace /\ [][NextRace]_vars

ReconcileRequests ==
  { r \in PullRequests :
      /\ r.view = "apps"
      /\ r.header \in {NoneV, 1}
      /\ r.session = NoneV
      /\ r.school_id = NoneV
      /\ r.last_sync = MaxTime }

\* the records in the scope of a request: the querysets of sync_view
\* without the filter on updated_at (every updated_at is later than NoTime)
in_scope(t, r) ==
  serialised(t, NoTime, process_request(t, r.header, r.session), r.user)

\* the copy a client holds of the records in scope
copy_of(t, r) ==
  [m \in PullModels |->
     [i \in 1..3 |-> IF <<m, i>> \in in_scope(t, r) THEN t[m][i]
                     ELSE NoPRow]]

\* the client stores every record of the response under its key
apply_response(t, l, rows) ==
  [m \in PullModels |->
     [i \in 1..3 |-> IF <<m, i>> \in rows THEN t[m][i] ELSE l[m][i]]]

\* the client holds the records in scope as they are at last_sync
InitReconcile ==
  /\ IdleNotReconcile
  /\ srv \in PullTables
  /\ rpull \in ReconcileRequests
  /\ local = copy_of(srv, rpull)
  /\ sclock = MaxTime
  /\ pulled = FALSE

\* time passes on the server
TickReconcile ==
  /\ sclock < MaxTime + 2
  /\ sclock' = sclock + 1
  /\ UNCHANGED <<srv, local, rpull, pulled, notReconcile>>

\* after last_sync another client creates a grade: ser.save()
push_create ==
  /\ ~pulled
  /\ sclock > MaxTime
  /\ srv["grade"][3] = NoPRow
  /\ \E school \in SchoolIds :
       srv' = [srv EXCEPT !["grade"][3] =
                 [school |-> school, updated_at |-> sclock]]
  /\ UNCHANGED <<local, sclock, rpull, pulled, notReconcile>>

\* after last_sync another client updates a grade: ser.save(), auto_now
push_update ==
  /\ ~pulled
  /\ sclock > MaxTime
  /\ \E i \in 1..3 :
       /\ srv["grade"][i] # NoPRow
       /\ srv' = [srv EXCEPT !["grade"][i].updated_at = sclock]
  /\ UNCHANGED <<local, sclock, rpull, pulled, notReconcile>>

\* after last_sync another client deletes a grade: obj.delete()
push_delete ==
  /\ ~pulled
  /\ sclock > MaxTime
  /\ \E i \in 1..2 :
       /\ srv["grade"][i] # NoPRow
       /\ srv' = [srv EXCEPT !["grade"][i] = NoPRow]
  /\ UNCHANGED <<local, sclock, rpull, pulled, notReconcile>>

\* the client calls sync_view with its last_sync and applies the response
client_pull ==
  /\ ~pulled
  /\ LET response == apps_sync(srv, rpull)
     IN /\ response.status = 200
        /\ local' = apply_response(srv, local, response.rows)
  /\ pulled' = TRUE
  /\ UNCHANGED <<srv, sclock, rpull, notReconcile>>

NextReconcile ==
  \/ TickReconcile
  \/ push_create
  \/ push_update
  \/ push_delete
  \/ client_pull

SpecReconcile == InitReconcile /\ [][NextReconcile]_vars

\* C27: a client whose local copy equals the server's in-scope records at
\* time T and that applies the response of sync_view(last_sync = T) holds
\* exactly the server's in-scope records afterwards, for any sequence of
\* server-side creates, updates and deletes between T and the pull.
C27_Reconciled ==
  pulled =>
    \A m \in PullModels, i \in 1..3 :
      local[m][i] =
        (IF srv[m][i] # NoPRow /\ <<m, i>> \in in_scope(srv, rpull)
         THEN srv[m][i] ELSE NoPRow)

(***************************************************************************)
(* SpecScope: the school of the Grades that grade_bulk_entry and           *)
(* grade_import store                                                      *)
(***************************************************************************)
\* the school of each student, subject and grading period, by id: one of
\* each in either school
SchoolOf == [id \in {1, 2} |-> id]

\* the users who may enter grades
ScopeUsers ==
  { [role |-> "teacher", school |-> 1],
    [role |-> "admin", school |-> 1],
    [role |-> "super_admin", school |-> NoneV] }

\* school = request.user.school if role != 'super_admin' else None
view_school(user) ==
  IF user.role # "super_admin" THEN user.school ELSE NoneV

\* Grade.objects.get_or_create(student, subject, grading_period,
\* defaults={'school': school or student.school}): the rows afterwards
get_or_create_grade(gs, student, subject, period, school) ==
  IF \E g \in gs : /\ g.student = student
                   /\ g.subject = subject
                   /\ g.grading_period = period
  THEN gs
  ELSE gs \cup {[student |-> student, subject |-> subject,
                 grading_period |-> period,
                 school |-> IF school # NoneV THEN school
                            ELSE SchoolOf[student]]}

\* get_or_create for each of the entries, one after the other
RECURSIVE store_all(_, _, _)
store_all(gs, entries, school) ==
  IF entries = {} THEN gs
  ELSE LET e == CHOOSE x \in entries : TRUE
       IN store_all(get_or_create_grade(gs, e[1], e[2], e[3], school),
                    entries \ {e}, school)

\* the selection of grade_bulk_entry is looked up in the school only when
\* subject, grading_period and class_section are all in the query string
selection_ok(school, subject, period, class_given) ==
  class_given =>
    \/ school = NoneV
    \/ SchoolOf[subject] = school /\ SchoolOf[period] = school

\* the rows of a file that grade_import stores: student, subject and
\* grading period belong to the school when the user has one
import_ok(school, e) ==
  \/ school = NoneV
  \/ /\ SchoolOf[e[1]] = school
     /\ SchoolOf[e[2]] = school
     /\ SchoolOf[e[3]] = school

InitScope ==
  /\ IdleNotScope
  /\ gscoped = {}

\* POST to grade_bulk_entry?subject=..&grading_period=..[&class_section=..]
\* with a score for each of the students posted
scoped_bulk_entry ==
  \E user \in ScopeUsers, subject \in {1, 2}, period \in {1, 2},
     class_given \in BOOLEAN, students \in SUBSET {1, 2} :
    /\ gscoped' =
         IF selection_ok(view_school(user), subject, period, class_given)
         THEN store_all(gscoped,
                        {<<s, subject, period>> : s \in students},
                        view_school(user))
         ELSE gscoped
    /\ UNCHANGED notScope

\* POST to grade_import with a file of up to two rows
scoped_import ==
  \E user \in ScopeUsers, file \in SUBSET ({1, 2} \X {1, 2} \X {1, 2}) :
    /\ Cardinality(file) <= 2
    /\ gscoped' = store_all(gscoped,
                            {e \in file : import_ok(view_school(user), e)},
                            view_school(user))
    /\ UNCHANGED notScope

NextScope ==
  \/ scoped_bulk_entry
  \/ scoped_import

SpecScope == InitScope /\ [][NextScope]_vars

\* C28: in every state reached by grade_bulk_entry and grade_import
\* requests of admins, teachers and super_admins, each Grade's school
\* equals the school of its student, of its subject and of its grading
\* period, and there is at most one Grade per (student, subject,
\* grading_period).
C28_GradeScope ==
  /\ \A g \in gscoped :
       /\ g.school = SchoolOf[g.student]
       /\ g.school = SchoolOf[g.subject]
       /\ g.school = SchoolOf[g.grading_period]
  /\ \A g, h \in gscoped :
       ( /\ g.student = h.student
         /\ g.subject = h.subject
         /\ g.grading_period = h.grading_period ) => g = h
====
